---- MODULE Spec2Model ----
(***************************************************************************)
(* The self-hosted sandbox provider (SelfHostedProvider) driving a         *)
(* container engine client, as a state machine.                            *)
(*                                                                         *)
(* One provider instance is shared by the callers in Callers.  Every       *)
(* `await` of the TypeScript source is a step boundary: a step is the      *)
(* completion of the awaited engine call followed by the synchronous code  *)
(* up to the next await.  The container engine is the environment: each    *)
(* engine call completes with one of the outcomes the engine client        *)
(* (DockerClient) can produce, chosen nondeterministically.                *)
(***************************************************************************)
EXTENDS Integers, Sequences, FiniteSets, TLC

VARIABLES
    containerId,    \* this.containerId            (0 is null)
    sandboxInfo,    \* this.sandboxInfo            (NoInfo is null)
    containers,     \* engine: status of every container created so far
    call,           \* per caller: the invocation it is running or has finished
    calls,          \* number of invocations started so far
    hist,           \* history: sandboxIds returned since terminate was last called
    files,          \* engine: text of every file written, per container
    other,          \* a second provider instance on the same engine
    modelService    \* the model service: cachedModels, the clock, its callers

vars == <<containerId, sandboxInfo, containers, call, calls, hist, files, other, modelService>>

----------------------------------------------------------------------------
(* Bounds of the model *)

Callers == {"a", "b"}

\* invocations started in one behaviour
MaxCalls == 3

\* clock ticks that make up the command timeout
TicksPerTimeout == 2

\* characters of a command string
MaxLen == 3

\* the largest limit getRecommendedModels is called with
MaxLimit == 2

\* clock steps that make up the lifetime of the model cache
StepsPerLifetime == 2

\* cache lifetimes the clock runs through
MaxLifetimes == 2

----------------------------------------------------------------------------
(* Program constants *)

\* selfHostedConfig.resources.timeout
timeout == 30000

\* selfHostedConfig.timeoutMs = 30 * 60 * 1000
timeoutMs == 30 * 60 * 1000

\* restartViteServer: setTimeout(resolve, 1000)
settleDelay == 1000

workingDirectory == "/app"

\* const CACHE_DURATION = 24 * 60 * 60 * 1000
CACHE_DURATION == 24 * 60 * 60 * 1000

\* how far Date.now() moves in one step of the clock
ClockStepMs == CACHE_DURATION \div StepsPerLifetime

TickMs == timeout \div TicksPerTimeout

NoInfo == [sandboxId |-> 0, url |-> <<>>, provider |-> "none"]

NoTimer == 0 - 1

\* this.containerId = null; containers are numbered from 1
NoContainer == 0

NotProvisionedMsg == <<"Sandbox not created. Call createSandbox() first.">>

----------------------------------------------------------------------------
(* Pure helpers.  A string is a sequence of atoms; the atom " " is a space  *)
(* and every other atom is a run of non-space characters.                  *)

RECURSIVE SplitAcc(_, _, _)
SplitAcc(s, cur, out) ==
    IF s = <<>> THEN Append(out, cur)
    ELSE IF Head(s) = " " THEN SplitAcc(Tail(s), <<>>, Append(out, cur))
    ELSE SplitAcc(Tail(s), Append(cur, Head(s)), out)

\* command.split(' ')
split(s) == SplitAcc(s, <<>>, <<>>)

RECURSIVE join(_)
\* packages.join(' ')
join(xs) ==
    IF xs = <<>> THEN <<>>
    ELSE IF Len(xs) = 1 THEN <<xs[1]>>
    ELSE <<xs[1], " ">> \o join(Tail(xs))

\* `npm install ${packages.join(' ')}`
installCommand(packages) == <<"npm", " ", "install", " ">> \o join(packages)

\* `${this.selfHostedConfig.workingDirectory}/${path}`
FullPath(path) == <<workingDirectory, "/", path>>

\* the paths, relative to the working directory, whose text is followed:
\* the manifest and the file the callers write and read
AllPaths == {"test.txt", "package.json"}

\* a file that does not exist (every file written holds at least a newline)
Absent == <<>>

NoFiles == [p \in AllPaths |-> Absent]

EchoVerbatim(content) == content

\* DockerClient.writeFile: sh -c "echo '<content>' > <path>"; echo ends its
\* output with a newline
Echo(content) == content \o <<"\n">>

\* the text the default manifest is seeded with
DefaultPackageJson == <<"defaultPackageJson">>

\* packageObj.scripts.dev as setupViteApp sets it
ViteDevScript == "vite --host 0.0.0.0 --port 3000"

\* A JSON object is the set of its <<member, value>> pairs.  The table gives,
\* for each JSON text that occurs, the object it denotes: the default
\* manifest, a manifest a caller wrote, each of them with the dev script of
\* Vite, and the empty object
JsonTexts ==
    [a \in {"defaultPackageJson", "defaultPackageJson.vite", "customPackageJson",
            "customPackageJson.vite", "{}"} |->
        CASE a = "defaultPackageJson" ->
                {<<"name", "sandbox-project">>, <<"version", "1.0.0">>,
                 <<"scripts.dev", "vite">>, <<"scripts.build", "vite build">>,
                 <<"scripts.preview", "vite preview">>, <<"dependencies", "{}">>}
          [] a = "defaultPackageJson.vite" ->
                {<<"name", "sandbox-project">>, <<"version", "1.0.0">>,
                 <<"scripts.dev", ViteDevScript>>, <<"scripts.build", "vite build">>,
                 <<"scripts.preview", "vite preview">>, <<"dependencies", "{}">>}
          [] a = "customPackageJson" ->
                {<<"name", "my-app">>, <<"private", "true">>,
                 <<"scripts.dev", "next dev">>, <<"scripts.test", "jest">>}
          [] a = "customPackageJson.vite" ->
                {<<"name", "my-app">>, <<"private", "true">>,
                 <<"scripts.dev", ViteDevScript>>, <<"scripts.test", "jest">>}
          [] a = "{}" -> {}]

ScriptMembers == {"scripts.dev", "scripts.build", "scripts.preview", "scripts.test"}

\* JSON.parse accepts the text: one JSON value, white space around it
IsJson(text) ==
    /\ Len(text) >= 1
    /\ text[1] \in DOMAIN JsonTexts
    /\ \A i \in 2..Len(text) : text[i] \in {"\n", " "}

\* JSON.parse(text)
parse(text) == JsonTexts[text[1]]

\* JSON.stringify(obj, null, 2)
stringify(obj) == CHOOSE a \in DOMAIN JsonTexts : JsonTexts[a] = obj

\* a manifest generated afresh for Vite
ManifestFromTemplate(obj) == JsonTexts["defaultPackageJson.vite"]

\* packageObj.scripts.dev = 'vite --host 0.0.0.0 --port 3000'
SetDev(obj) == {m \in obj : m[1] # "scripts.dev"} \cup {<<"scripts.dev", ViteDevScript>>}

\* packageObj.scripts is an object
HasScripts(obj) == \E m \in obj : m[1] \in ScriptMembers

\* the file system of a container after a successful write of content to
\* the full path fp
Written(fs, fp, content) ==
    IF fp[3] \in AllPaths THEN [fs EXCEPT ![fp[3]] = Echo(content)] ELSE fs

----------------------------------------------------------------------------
(* Values *)

NoValue == [t |-> "none"]
Void == [t |-> "void"]
Error(msg) == [t |-> "error", msg |-> msg]

\* "Failed to ...: ${error.message}"
Wrapped(prefix, e) == Error(<<prefix>> \o e.msg)

FailureResultNoFlag(msg) ==
    [t |-> "cmd", stdout |-> "", stderr |-> msg, exitCode |-> 1, success |-> TRUE]

\* the CommandResult built in a catch block
FailureResult(msg) ==
    [t |-> "cmd", stdout |-> "", stderr |-> msg, exitCode |-> 1, success |-> FALSE]

\* the CommandResult DockerClient.execCommand builds on completion; exitCode
\* is State.ExitCode of the *container* as inspected after the exec
ExecResult(stdout, stderr, stateExit) ==
    [t |-> "cmd", stdout |-> stdout, stderr |-> stderr,
     exitCode |-> stateExit, success |-> (stateExit = 0)]

SandboxInfo(sandboxId, url) ==
    [sandboxId |-> sandboxId, url |-> url, provider |-> "self-hosted"]

StrValue(x) == [t |-> "str", s |-> x]
ListValue(xs) == [t |-> "list", files |-> xs]
UrlValue(u) == [t |-> "url", url |-> u]
InfoValue(i) == [t |-> "info", info |-> i]
BoolValue(b) == [t |-> "bool", b |-> b]

None == [kind |-> "none", v |-> NoValue]
Return(v) == [kind |-> "return", v |-> v]
Throw(e) == [kind |-> "throw", v |-> e]

EngineCall(k, c, a) == [k |-> k, c |-> c, a |-> a]
NoCall == EngineCall("none", 0, <<>>)

----------------------------------------------------------------------------
(* What the engine can answer *)

ExitCodes == {0, 1}
HostPorts == {"3001"}
EngineError == Error(<<"engine error">>)

\* exec: the process ran (its own exit code, and the container's
\* State.ExitCode seen by the inspect that follows), or the engine call failed
ExecOutcomes ==
    [kind : {"ran"}, cmdExit : ExitCodes, stateExit : ExitCodes]
    \cup {[kind |-> "failed", cmdExit |-> 0 - 1, stateExit |-> 0 - 1]}

\* inspect: failure, or the published host port of 3000/tcp ("" is no binding)
InspectOutcomes == {"failed", ""} \cup HostPorts

----------------------------------------------------------------------------
(* State *)

Idle ==
    [op |-> "idle", pc |-> "idle", n |-> 0, solo |-> TRUE, arg |-> <<>>,
     prevOp |-> "idle", h0 |-> 0, cid |-> 0, sid |-> 0, k |-> 0, log |-> <<>>,
     pend |-> NoCall, elapsed |-> NoTimer, late |-> "none", how |-> "none",
     real |-> 0 - 1, res |-> None]

\* the fields of a provider instance that has provisioned nothing, and the
\* position of its caller (cid is the container a createSandbox in progress
\* has created)
NoOther == [containerId |-> NoContainer, sandboxInfo |-> NoInfo, pc |-> "idle", cid |-> NoContainer]

\* let cachedModels = null (a cached entry always holds a non-empty list)
NoCachedModels == [models |-> <<>>, timestamp |-> 0]

\* a caller of the model service that has invoked nothing
NoModelCall ==
    [op |-> "none", pc |-> "idle", force |-> FALSE, now |-> 0, fetched |-> FALSE,
     how |-> "none", res |-> <<>>, seen |-> NoCachedModels, limit |-> 0,
     prev |-> [op |-> "none", force |-> FALSE, now |-> 0, res |-> <<>>,
               fetched |-> FALSE]]

Init ==
    /\ containerId = 0
    /\ sandboxInfo = NoInfo
    /\ containers = <<>>
    /\ call = [t \in Callers |-> Idle]
    /\ calls = 0
    /\ hist = [first |-> 0, last |-> 0]
    /\ files = <<>>
    /\ other = NoOther
    /\ modelService = [cachedModels |-> NoCachedModels, now |-> 0, calls |-> 0,
                       lastFetch |-> NoCachedModels,
                       call |-> [t \in Callers |-> NoModelCall]]

Returned(c) == c.pc \in {"idle", "done"}
InFlight(c) == ~Returned(c)

\* a caller may invoke an operation once its previous invocation has returned
CanStart(t) == Returned(call[t]) /\ calls < MaxCalls

\* the record of a new invocation
Fresh(t, op, arg) ==
    [Idle EXCEPT !.op = op, !.n = calls + 1, !.arg = arg, !.prevOp = call[t].op,
                 !.h0 = containerId,
                 !.solo = \A u \in Callers \ {t} : Returned(call[u])]

\* the invocation issues engine call e and suspends at pc
Await(c, pc, e) == [c EXCEPT !.pc = pc, !.pend = e, !.log = Append(@, e)]

\* the invocation suspends at pc on a promise that is already settled
Yield(c, pc) == [c EXCEPT !.pc = pc, !.pend = NoCall]

\* the invocation settles with result r
Settle(c, r) ==
    [c EXCEPT !.pc = "done", !.pend = NoCall, !.res = r, !.cid = 0, !.sid = 0,
              !.k = 0, !.elapsed = NoTimer]

\* `!this.containerId`
NoHandle == containerId = NoContainer

SetStatus(c, s) ==
    IF c \in DOMAIN containers THEN [containers EXCEPT ![c] = s] ELSE containers

StatusOf(c) == IF c \in DOMAIN containers THEN containers[c] ELSE "none"

----------------------------------------------------------------------------
(* createSandbox *)

CreatePrefix == "Failed to create self-hosted sandbox: "

CreateRetried(c, e) == Await(c, c.pc, c.pend)

\* the catch block of createSandbox: the error is wrapped and rethrown
CreateFailed(c, e) == Settle(c, Throw(Wrapped(CreatePrefix, e)))

InfoDroppedInCatch == NoInfo

\* this.sandboxInfo after the catch block of createSandbox: not touched
InfoAfterCatch == sandboxInfo

\* `await this.getSandboxUrl()` up to its first await: with no handle it
\* returns null at once, otherwise it inspects the held container
UrlStep(c, pc) ==
    IF NoHandle THEN Yield(c, pc)
    ELSE Await(c, pc, EngineCall("getContainerInfo", containerId, <<>>))

UrlOfUnchecked(c, o) == <<"http://localhost:", o>>

UrlCached(c, o) == sandboxInfo.url

\* ports['3000/tcp'].HostPort of the inspection, as a URL or null (<<>>)
UrlOf(c, o) ==
    IF c.pend.k = "none" \/ o \in {"failed", ""} THEN <<>>
    ELSE <<"http://localhost:", o>>

TerminateInFlight == \E u \in Callers : call[u].op = "terminate" /\ InFlight(call[u])

\* createSandbox is called: ping is issued
CreateSandbox(t) ==
    /\ CanStart(t)
    /\ call' = [call EXCEPT ![t] =
                    Await(Fresh(t, "createSandbox", <<>>), "ping", EngineCall("ping", 0, <<>>))]
    /\ calls' = calls + 1
    /\ UNCHANGED <<containerId, sandboxInfo, containers, hist, files, other, modelService>>

DockerUnavailableMsg == <<"Docker is not available or not running">>

\* the sandboxId is generated and createContainer is issued
PingPassed(c) ==
    Await([c EXCEPT !.sid = c.n], "createContainer", EngineCall("createContainer", 0, <<>>))

PingIgnored(c) == PingPassed(c)

\* if (!isDockerAvailable) throw new Error(...), outside the try block
PingFailed(c) == Settle(c, Throw(Error(DockerUnavailableMsg)))

\* ping answered: unavailable is an error thrown outside the try block;
\* otherwise the sandboxId is generated and createContainer is issued
CreatePing(t) ==
    /\ call[t].pc = "ping"
    /\ \E ok \in BOOLEAN :
          LET c == [call[t] EXCEPT !.how = IF ok THEN "up" ELSE "down"] IN
          call' = [call EXCEPT ![t] = IF ~ok THEN PingFailed(c) ELSE PingPassed(c)]
    /\ UNCHANGED <<containerId, sandboxInfo, containers, calls, hist, files, other, modelService>>

\* createContainer answered: a new container exists and startContainer is
\* issued, or the call failed
CreateContainer(t) ==
    /\ call[t].pc = "createContainer"
    /\ \/ LET id == Len(containers) + 1 IN
          /\ containers' = Append(containers, "created")
          /\ files' = Append(files, NoFiles)
          /\ call' = [call EXCEPT ![t] =
                         Await([call[t] EXCEPT !.cid = id], "startContainer",
                               EngineCall("startContainer", id, <<>>))]
          /\ UNCHANGED sandboxInfo
       \/ /\ call' = [call EXCEPT ![t] = CreateFailed(call[t], EngineError)]
          /\ sandboxInfo' = InfoAfterCatch
          /\ UNCHANGED <<containers, files>>
    /\ UNCHANGED <<containerId, calls, hist, other, modelService>>

\* a handle the engine has issued, whichever createContainer call it answered
LatestContainer(c) == Len(containers)

\* this.containerId = containerId: the id this invocation's own
\* createContainer call returned
StartedHandle(c) == c.cid

\* startContainer answered: the handle is recorded (this.containerId =
\* containerId) and initializeNodeEnvironment issues its mkdir
CreateStart(t) ==
    /\ call[t].pc = "startContainer"
    /\ \/ /\ containers' = SetStatus(call[t].cid, "running")
          /\ containerId' = StartedHandle(call[t])
          /\ call' = [call EXCEPT ![t] =
                         Await(call[t], "mkdir",
                               EngineCall("execCommand", call[t].cid,
                                          <<<<"mkdir">>, <<"-p">>, <<workingDirectory>>>>))]
          /\ UNCHANGED sandboxInfo
       \/ /\ call' = [call EXCEPT ![t] = CreateFailed(call[t], EngineError)]
          /\ sandboxInfo' = InfoAfterCatch
          /\ UNCHANGED <<containerId, containers>>
    /\ UNCHANGED <<calls, hist, files, other, modelService>>

\* mkdir answered (its CommandResult is not looked at): test -f is issued
CreateMkdir(t) ==
    /\ call[t].pc = "mkdir"
    /\ call' = [call EXCEPT ![t] =
                    Await(call[t], "testf",
                          EngineCall("execCommand", call[t].cid,
                                     <<<<"test">>, <<"-f">>, FullPath("package.json")>>))]
    /\ UNCHANGED <<containerId, sandboxInfo, containers, calls, hist, files, other, modelService>>

\* the exit status of `test -f` on a path of the working directory
TestF(fs, p) == IF fs[p] # Absent THEN 0 ELSE 1

\* test -f answered: without success the default manifest is written,
\* otherwise the URL is resolved
CreateTestF(t) ==
    /\ call[t].pc = "testf"
    /\ \E o \in ExecOutcomes :
          LET r == IF o.kind = "ran" THEN ExecResult("", <<>>, o.stateExit)
                   ELSE FailureResult(EngineError.msg)
          IN
          /\ o.kind = "ran" => o.cmdExit = TestF(files[call[t].cid], "package.json")
          /\ call' = [call EXCEPT ![t] =
                        IF ~r.success
                        THEN Await([call[t] EXCEPT !.real = o.cmdExit], "initWrite",
                                   EngineCall("writeFile", call[t].cid,
                                              <<FullPath("package.json"), DefaultPackageJson>>))
                        ELSE UrlStep([call[t] EXCEPT !.real = o.cmdExit], "url")]
    /\ UNCHANGED <<containerId, sandboxInfo, containers, calls, hist, files, other, modelService>>

\* the manifest write answered: a failure is rethrown by
\* initializeNodeEnvironment and fails createSandbox
CreateInitWrite(t) ==
    /\ call[t].pc = "initWrite"
    /\ \E ok \in BOOLEAN :
          /\ call' = [call EXCEPT ![t] =
                        IF ok THEN UrlStep(call[t], "url")
                        ELSE CreateFailed(call[t], EngineError)]
          /\ sandboxInfo' = IF ok THEN sandboxInfo ELSE InfoAfterCatch
          /\ files' = IF ok THEN [files EXCEPT ![call[t].pend.c] =
                                     Written(@, call[t].pend.a[1], call[t].pend.a[2])]
                       ELSE files
    /\ UNCHANGED <<containerId, containers, calls, hist, other, modelService>>

\* getSandboxUrl answered: the SandboxInfo is cached and returned
CreateUrl(t) ==
    /\ call[t].pc = "url"
    /\ \E o \in InspectOutcomes :
          LET info == SandboxInfo(call[t].sid, UrlOf(call[t], o)) IN
          /\ sandboxInfo' = info
          /\ call' = [call EXCEPT ![t] =
                         Settle([call[t] EXCEPT !.how = o], Return(InfoValue(info)))]
          /\ hist' = IF TerminateInFlight THEN hist
                     ELSE [first |-> IF hist.first = 0 THEN info.sandboxId ELSE hist.first,
                           last |-> info.sandboxId]
    /\ UNCHANGED <<containerId, containers, calls, files, other, modelService>>

----------------------------------------------------------------------------
(* terminate *)

TerminateEntryUnchecked(c) ==
    Await(c, "stop", EngineCall("stopContainer", containerId, <<>>))

\* terminate up to its first await: without a handle it returns at once,
\* otherwise stopContainer is issued on the held container
TerminateEntry(c) ==
    IF NoHandle THEN Settle(c, Return(Void))
    ELSE Await(c, "stop", EngineCall("stopContainer", containerId, <<>>))

FieldsClearedInTry(ok) ==
    IF ok THEN [containerId |-> 0, sandboxInfo |-> NoInfo]
    ELSE [containerId |-> containerId, sandboxInfo |-> sandboxInfo]

\* the fields of the provider after the finally block of terminate, whether
\* the try block completed (ok) or threw
FieldsAfterTerminate(ok) == [containerId |-> 0, sandboxInfo |-> NoInfo]

\* terminate settles: the catch block has swallowed whatever was thrown
TerminateFinally(c) == Settle(c, Return(Void))

\* terminate is called
Terminate(t) ==
    /\ CanStart(t)
    /\ call' = [call EXCEPT ![t] = TerminateEntry(Fresh(t, "terminate", <<>>))]
    /\ calls' = calls + 1
    /\ hist' = [first |-> 0, last |-> 0]
    /\ UNCHANGED <<containerId, sandboxInfo, containers, files, other, modelService>>

\* stopContainer answered: on success removeContainer is issued on
\* this.containerId as it is now; on failure the catch block logs and the
\* finally block clears the handle and the cached info
TerminateStop(t) ==
    /\ call[t].pc = "stop"
    /\ \/ /\ StatusOf(call[t].pend.c) = "running"
          /\ containers' = SetStatus(call[t].pend.c, "exited")
          /\ call' = [call EXCEPT ![t] =
                         Await(call[t], "remove", EngineCall("removeContainer", containerId, <<>>))]
          /\ UNCHANGED <<containerId, sandboxInfo>>
       \/ /\ call' = [call EXCEPT ![t] = TerminateFinally(call[t])]
          /\ containerId' = FieldsAfterTerminate(FALSE).containerId
          /\ sandboxInfo' = FieldsAfterTerminate(FALSE).sandboxInfo
          /\ UNCHANGED containers
    /\ UNCHANGED <<calls, hist, files, other, modelService>>

\* removeContainer answered, either way: the finally block clears the
\* handle and the cached info
TerminateRemove(t) ==
    /\ call[t].pc = "remove"
    /\ \E ok \in BOOLEAN :
          /\ ok => StatusOf(call[t].pend.c) \in {"created", "running", "exited"}
          /\ containers' = IF ok THEN SetStatus(call[t].pend.c, "removed") ELSE containers
          /\ containerId' = FieldsAfterTerminate(ok).containerId
          /\ sandboxInfo' = FieldsAfterTerminate(ok).sandboxInfo
    /\ call' = [call EXCEPT ![t] = TerminateFinally(call[t])]
    /\ UNCHANGED <<calls, hist, files, other, modelService>>

----------------------------------------------------------------------------
(* runCommand, installPackages *)

Commands == { <<"ls">>, <<"echo", " ", "hi">> }

\* what a command string is made of: a run of other characters, a space, a tab
CommandChars == {"ls", " ", "\t"}

CommandStrings == UNION {[1..n -> CommandChars] : n \in 0..MaxLen}
PackageLists == { <<"left-pad">> }

RaceDelayMs == timeoutMs

\* the delay of the race's timer: this.selfHostedConfig.resources.timeout
RaceDelay == timeout

\* Promise.race([execCommand(this.containerId, argv), timer(resources.timeout)])
Race(c, argv) ==
    [Await(c, "race", EngineCall("execCommand", containerId, argv))
        EXCEPT !.elapsed = 0]

\* the CommandResult that execCommand resolves with
ExecAnswer(o) ==
    IF o.kind = "ran"
    THEN ExecResult(IF o.cmdExit = 0 THEN "out" ELSE "",
                    IF o.cmdExit = 0 THEN <<>> ELSE <<"err">>, o.stateExit)
    ELSE FailureResult(EngineError.msg)

\* what a `cat` that exits 0 prints: the text of the file; the client that
\* keeps no files answers '{}' for every path
CatOutput(fs, fp) ==
    IF fp[3] \notin AllPaths \/ fs[fp[3]] = Absent THEN <<"{}">> ELSE fs[fp[3]]

\* the CommandResult of the `cat` that DockerClient.readFile runs
CatAnswer(o, fs, fp) ==
    IF o.kind = "ran"
    THEN ExecResult(IF o.cmdExit = 0 THEN CatOutput(fs, fp) ELSE <<>>,
                    IF o.cmdExit = 0 THEN <<>> ELSE <<"err">>, o.stateExit)
    ELSE FailureResult(EngineError.msg)

Unguarded(c, awaiting) == awaiting

\* if (!this.containerId) throw new Error('Sandbox not created. ...')
Guarded(c, awaiting) ==
    IF NoHandle THEN Settle(c, Throw(Error(NotProvisionedMsg))) ELSE awaiting

\* this.writeFile(path, content) up to its await
WriteStep(c, path, content) ==
    Guarded(c, Await(c, "write",
                     EngineCall("writeFile", containerId, <<FullPath(path), <<content>>>>)))

\* this.readFile(path) up to its await
ReadStep(c, path) ==
    Guarded(c, Await(c, "read", EngineCall("readFile", containerId, <<FullPath(path)>>)))

\* this.dockerClient.execCommand(this.containerId, argv), awaited directly
ExecStep(c, argv) == Await(c, "exec", EngineCall("execCommand", containerId, argv))

RunStepUnchecked(c, command) == Race(c, split(command))

\* this.runCommand(command) up to its await
RunStep(c, command) == Guarded(c, Race(c, split(command)))

\* the awaits of setupViteApp after its own handle check, in program order
SetupPlan ==
    << [do |-> "install", a |-> <<"vite", "@vitejs/plugin-react", "react", "react-dom">>],
       [do |-> "write", a |-> <<"vite.config.js", "viteConfig">>],
       [do |-> "exec", a |-> <<<<"mkdir">>, <<"-p">>, FullPath("src")>>],
       [do |-> "write", a |-> <<"src/main.jsx", "mainJsx">>],
       [do |-> "write", a |-> <<"src/App.jsx", "appJsx">>],
       [do |-> "write", a |-> <<"src/index.css", "indexCss">>],
       [do |-> "write", a |-> <<"index.html", "indexHtml">>],
       [do |-> "read", a |-> <<"package.json">>],
       [do |-> "rewrite", a |-> <<"package.json">>] >>

\* the answer of the step before is out of scope at the next one
Forget(c) == [c EXCEPT !.real = 0 - 1, !.how = "none"]

\* setupViteApp goes on to its next await, or returns after the last one
SetupNext(c) ==
    LET k == c.k + 1
        d == [c EXCEPT !.k = k]
    IN IF k > Len(SetupPlan) THEN Settle(c, Return(Void))
       ELSE LET st == SetupPlan[k] IN
            CASE st.do = "install" -> RunStep(d, installCommand(st.a))
              [] st.do = "write" -> WriteStep(d, st.a[1], st.a[2])
              [] st.do = "exec" -> ExecStep(d, st.a)
              [] st.do = "read" -> ReadStep(d, st.a[1])

\* the last await of setupViteApp: the manifest read is parsed, given the
\* dev script and written back
SetupRewrite(c, text) ==
    WriteStep([c EXCEPT !.k = c.k + 1], "package.json", stringify(SetDev(parse(text))))

\* what the operation that ran the race does with its CommandResult:
\* runCommand and installPackages return it, setupViteApp and
\* restartViteServer do not look at it
AfterRace(c, r) ==
    CASE c.op = "setupViteApp" -> SetupNext(c)
      [] c.op = "restartViteServer" -> Settle(c, Return(Void))
      [] OTHER -> Settle(c, Return(r))

\* runCommand is called
RunCommandOf(t, cmds) ==
    /\ CanStart(t)
    /\ \E cmd \in cmds :
          call' = [call EXCEPT ![t] = RunStep(Fresh(t, "runCommand", cmd), cmd)]
    /\ calls' = calls + 1
    /\ UNCHANGED <<containerId, sandboxInfo, containers, hist, files, other, modelService>>

RunCommand(t) == RunCommandOf(t, Commands)

\* runCommand with any command string of up to MaxLen characters
RunAnyCommand(t) == RunCommandOf(t, CommandStrings)

\* installPackages is called: it checks the handle and calls runCommand
InstallPackages(t) ==
    /\ CanStart(t)
    /\ \E pk \in PackageLists :
          LET c == Fresh(t, "installPackages", pk) IN
          call' = [call EXCEPT ![t] = Guarded(c, RunStep(c, installCommand(pk)))]
    /\ calls' = calls + 1
    /\ UNCHANGED <<containerId, sandboxInfo, containers, hist, files, other, modelService>>

\* the exec of a race answers first; the timer stays armed
RaceExec(t) ==
    /\ call[t].pc = "race"
    /\ \E o \in ExecOutcomes :
          call' = [call EXCEPT ![t] =
                     AfterRace([call[t] EXCEPT !.real = o.cmdExit, !.late = "timer",
                                                 !.how = o.kind, !.elapsed = NoTimer],
                               ExecAnswer(o))]
    /\ UNCHANGED <<containerId, sandboxInfo, containers, calls, hist, files, other, modelService>>

HandleDroppedOnTimeout == NoContainer

\* this.containerId after the catch block of runCommand: not touched
HandleAfterTimeout == containerId

\* the timer of a race fires first: the rejection is caught and turned into
\* a CommandResult; the exec is left running
RaceTimeout(t) ==
    /\ call[t].pc = "race"
    /\ call[t].elapsed >= RaceDelay
    /\ call' = [call EXCEPT ![t] =
                    AfterRace([call[t] EXCEPT !.late = "exec", !.how = "timeout",
                                              !.elapsed = NoTimer],
                              FailureResult(<<"Command timeout">>))]
    /\ containerId' = HandleAfterTimeout
    /\ UNCHANGED <<sandboxInfo, containers, calls, hist, files, other, modelService>>

\* a race whose losing event settles the invocation once more: the late
\* timer rejects it, the late exec resolves it
LateSettles(c) ==
    [c EXCEPT !.late = "none",
              !.res = IF c.late = "timer" THEN Return(FailureResult(<<"Command timeout">>))
                      ELSE Return(ExecResult("late", <<>>, 0))]

\* Promise.race has settled with the first event; the settlement of the
\* other promise has no one waiting for it
Discarded(c) == [c EXCEPT !.late = "none"]

\* the losing event of a decided race arrives (the exec answers after the
\* timeout, or the timer that was never cleared fires): the race is settled
\* and nothing is waiting for it
LateEvent(t) ==
    /\ call[t].late # "none"
    /\ call' = [call EXCEPT ![t] = Discarded(call[t])]
    /\ UNCHANGED <<containerId, sandboxInfo, containers, calls, hist, files, other, modelService>>

----------------------------------------------------------------------------
(* writeFile, readFile, listFiles *)

Paths == {"test.txt"}
Contents == {"hello"}
Directories == {<<>>, <<"src">>}

WriteFileOf(t, paths, contents) ==
    /\ CanStart(t)
    /\ \E p \in paths, x \in contents :
          call' = [call EXCEPT ![t] = WriteStep(Fresh(t, "writeFile", <<p, x>>), p, x)]
    /\ calls' = calls + 1
    /\ UNCHANGED <<containerId, sandboxInfo, containers, hist, files, other, modelService>>

WriteFile(t) == WriteFileOf(t, Paths, Contents)

\* the manifests a caller puts in place of the seeded one
ManifestTexts == {"customPackageJson", "{}"}

\* writeFile('package.json', <a manifest>)
WriteManifest(t) == WriteFileOf(t, {"package.json"}, ManifestTexts)

\* the client's writeFile answered: a failure is wrapped and thrown
WriteDone(t) ==
    /\ call[t].pc = "write"
    /\ \E ok \in BOOLEAN :
          /\ call' = [call EXCEPT ![t] =
                     IF ~ok
                     THEN Settle([call[t] EXCEPT !.how = "failed"],
                                 Throw(Wrapped("Failed to write file: ", EngineError)))
                     ELSE IF call[t].op = "setupViteApp" THEN SetupNext(Forget(call[t]))
                     ELSE Settle(call[t], Return(Void))]
          /\ files' = IF ok THEN [files EXCEPT ![call[t].pend.c] =
                                     Written(@, call[t].pend.a[1], call[t].pend.a[2])]
                       ELSE files
    /\ UNCHANGED <<containerId, sandboxInfo, containers, calls, hist, other, modelService>>

ReadFile(t) ==
    /\ CanStart(t)
    /\ \E p \in Paths :
          call' = [call EXCEPT ![t] = ReadStep(Fresh(t, "readFile", <<p>>), p)]
    /\ calls' = calls + 1
    /\ UNCHANGED <<containerId, sandboxInfo, containers, hist, files, other, modelService>>

\* the client's readFile answered: it ran `cat` through execCommand and
\* throws when that CommandResult has no success; the provider wraps the
\* error.  setupViteApp parses the text and sets scripts.dev, which throws
\* unless the text is a JSON object with a scripts member
ReadDone(t) ==
    /\ call[t].pc = "read"
    /\ \E o \in ExecOutcomes :
          LET r == CatAnswer(o, files[call[t].pend.c], call[t].pend.a[1])
              c == [call[t] EXCEPT !.real = o.cmdExit, !.how = o.kind]
          IN call' = [call EXCEPT ![t] =
                        IF ~r.success
                        THEN Settle(c, Throw(Wrapped("Failed to read file: ",
                                 Error(<<"Failed to read file: ">> \o r.stderr))))
                        ELSE IF c.op = "setupViteApp"
                        THEN IF ~IsJson(r.stdout)
                             THEN Settle(c, Throw(Error(<<"SyntaxError">>)))
                             ELSE IF ~HasScripts(parse(r.stdout))
                             THEN Settle(c, Throw(Error(<<"TypeError">>)))
                             ELSE SetupRewrite(Forget(c), r.stdout)
                        ELSE Settle(c, Return(StrValue(r.stdout)))]
    /\ UNCHANGED <<containerId, sandboxInfo, containers, calls, hist, files, other, modelService>>

\* the followed paths in the order `ls` prints them
PathOrder == <<"package.json", "test.txt">>

LsLine(name) == <<"-rw-r--r--", "1", "root", "root", "215", name>>

\* the lines of the `ls -la` listing of the directory at full path fp, each
\* already cut at its whitespace: the total line, the two directory
\* entries, then one line per file in the working directory
LsOutput(fs, fp) ==
    LET present == SelectSeq(PathOrder, LAMBDA p : fs[p] # Absent)
    IN << <<"total", "8">>,
          <<"drwxr-xr-x", "2", "root", "root", "4096", ".">>,
          <<"drwxr-xr-x", "1", "root", "root", "4096", "..">> >>
       \o (IF Len(fp) = 1 THEN [i \in 1..Len(present) |-> LsLine(present[i])]
           ELSE <<>>)

RECURSIVE ParseLs(_)
\* DockerClient.listFiles: the last field of every line that is not the
\* total line, unless it is . or ..
ParseLs(lines) ==
    IF lines = <<>> THEN <<>>
    ELSE LET line == Head(lines)
             filename == line[Len(line)]
         IN IF line[1] = "total" \/ filename \in {".", ".."}
            THEN ParseLs(Tail(lines))
            ELSE <<filename>> \o ParseLs(Tail(lines))

\* directory ? `${workingDirectory}/${directory}` : workingDirectory
ListPath(dir) == IF dir = <<>> THEN <<workingDirectory>> ELSE FullPath(dir[1])

ListFiles(t) ==
    /\ CanStart(t)
    /\ \E d \in Directories :
          LET c == Fresh(t, "listFiles", d) IN
          call' = [call EXCEPT ![t] =
                     Guarded(c, Await(c, "list",
                                      EngineCall("listFiles", containerId, <<ListPath(d)>>)))]
    /\ calls' = calls + 1
    /\ UNCHANGED <<containerId, sandboxInfo, containers, hist, files, other, modelService>>

\* the client's listFiles answered: it ran `ls -la` through execCommand
ListDone(t) ==
    /\ call[t].pc = "list"
    /\ \E o \in ExecOutcomes :
          LET r == ExecAnswer(o)
              c == [call[t] EXCEPT !.real = o.cmdExit, !.how = o.kind]
          IN call' = [call EXCEPT ![t] =
                        IF ~r.success
                        THEN Settle(c, Throw(Wrapped("Failed to list files: ",
                                 Error(<<"Failed to list files: ">> \o r.stderr))))
                        ELSE Settle(c, Return(ListValue(
                                 IF o.cmdExit = 0
                                 THEN ParseLs(LsOutput(files[call[t].pend.c], call[t].pend.a[1]))
                                 ELSE <<>>)))]
    /\ UNCHANGED <<containerId, sandboxInfo, containers, calls, hist, files, other, modelService>>

----------------------------------------------------------------------------
(* setupViteApp, restartViteServer *)

SetupViteApp(t) ==
    /\ CanStart(t)
    /\ LET c == Fresh(t, "setupViteApp", <<>>) IN
       call' = [call EXCEPT ![t] = Guarded(c, SetupNext(c))]
    /\ calls' = calls + 1
    /\ UNCHANGED <<containerId, sandboxInfo, containers, hist, files, other, modelService>>

\* restartViteServer is called: pkill is issued through execCommand
RestartViteServer(t) ==
    /\ CanStart(t)
    /\ LET c == Fresh(t, "restartViteServer", <<>>) IN
       call' = [call EXCEPT ![t] =
                   Guarded(c, ExecStep(c, <<<<"pkill">>, <<"-f">>, <<"vite">>>>))]
    /\ calls' = calls + 1
    /\ UNCHANGED <<containerId, sandboxInfo, containers, hist, files, other, modelService>>

\* an execCommand awaited directly answered (its CommandResult is not looked
\* at): setupViteApp goes on, restartViteServer starts its settling delay
ExecDone(t) ==
    /\ call[t].pc = "exec"
    /\ call' = [call EXCEPT ![t] =
                    IF call[t].op = "setupViteApp" THEN SetupNext(Forget(call[t]))
                    ELSE [Yield(call[t], "settle") EXCEPT !.elapsed = 0]]
    /\ UNCHANGED <<containerId, sandboxInfo, containers, calls, hist, files, other, modelService>>

\* the settling delay is over: the dev script is run through runCommand
RestartSettled(t) ==
    /\ call[t].pc = "settle"
    /\ call[t].elapsed >= settleDelay
    /\ call' = [call EXCEPT ![t] =
                    RunStep([call[t] EXCEPT !.elapsed = NoTimer],
                            <<"npm", " ", "run", " ", "dev", " ", "&">>)]
    /\ UNCHANGED <<containerId, sandboxInfo, containers, calls, hist, files, other, modelService>>

----------------------------------------------------------------------------
(* getSandboxUrl, getSandboxInfo, isAlive *)

GetSandboxUrl(t) ==
    /\ CanStart(t)
    /\ LET c == Fresh(t, "getSandboxUrl", <<>>) IN
       call' = [call EXCEPT ![t] =
                   IF NoHandle THEN Settle(c, Return(UrlValue(<<>>)))
                   ELSE UrlStep(c, "geturl")]
    /\ calls' = calls + 1
    /\ UNCHANGED <<containerId, sandboxInfo, containers, hist, files, other, modelService>>

\* getContainerInfo answered
GetUrlDone(t) ==
    /\ call[t].pc = "geturl"
    /\ \E o \in InspectOutcomes :
          call' = [call EXCEPT ![t] =
                     Settle([call[t] EXCEPT !.how = o], Return(UrlValue(UrlOf(call[t], o))))]
    /\ UNCHANGED <<containerId, sandboxInfo, containers, calls, hist, files, other, modelService>>

GetSandboxInfo(t) ==
    /\ CanStart(t)
    /\ call' = [call EXCEPT ![t] =
                    Settle(Fresh(t, "getSandboxInfo", <<>>), Return(InfoValue(sandboxInfo)))]
    /\ calls' = calls + 1
    /\ UNCHANGED <<containerId, sandboxInfo, containers, hist, files, other, modelService>>

IsAlive(t) ==
    /\ CanStart(t)
    /\ call' = [call EXCEPT ![t] =
                    IF NoHandle
                    THEN Settle(Fresh(t, "isAlive", <<>>), Return(BoolValue(FALSE)))
                    ELSE Await(Fresh(t, "isAlive", <<>>), "alive",
                               EngineCall("isContainerRunning", containerId, <<>>))]
    /\ calls' = calls + 1
    /\ UNCHANGED <<containerId, sandboxInfo, containers, hist, files, other, modelService>>

AliveUnlessStopped(ok, status) == ~ok \/ status = "running"

\* DockerClient.isContainerRunning: info.status === 'running', false when
\* the inspection failed
AliveAnswer(ok, status) == ok /\ status = "running"

\* isContainerRunning answered
IsAliveDone(t) ==
    /\ call[t].pc = "alive"
    /\ \E ok \in BOOLEAN :
          LET status == StatusOf(call[t].pend.c)
              c == [call[t] EXCEPT !.how = IF ok THEN status ELSE "failed"]
          IN call' = [call EXCEPT ![t] =
                        Settle(c, Return(BoolValue(AliveAnswer(ok, status))))]
    /\ UNCHANGED <<containerId, sandboxInfo, containers, calls, hist, files, other, modelService>>

----------------------------------------------------------------------------
(* The environment *)

\* the main process of a running container exits
ContainerExit ==
    /\ \E c \in DOMAIN containers :
          /\ containers[c] = "running"
          /\ containers' = [containers EXCEPT ![c] = "exited"]
    /\ UNCHANGED <<containerId, sandboxInfo, call, calls, hist, files, other, modelService>>

\* the delay of the timer an invocation is waiting on
DelayOf(c) == IF c.pc = "settle" THEN settleDelay ELSE RaceDelay

Armed(c) == c.elapsed # NoTimer
Due(c) == Armed(c) /\ c.elapsed >= DelayOf(c)

\* time passes for every armed timer, but not beyond one that is due
Tick ==
    /\ \E t \in Callers : Armed(call[t])
    /\ \A t \in Callers : ~Due(call[t])
    /\ call' = [t \in Callers |->
                    IF Armed(call[t]) THEN [call[t] EXCEPT !.elapsed = @ + TickMs]
                    ELSE call[t]]
    /\ UNCHANGED <<containerId, sandboxInfo, containers, calls, hist, files, other, modelService>>

----------------------------------------------------------------------------

\* One caller drives the provider, one invocation at a time
Next ==
    \/ CreateSandbox("a") \/ Terminate("a") \/ RunCommand("a") \/ InstallPackages("a")
    \/ WriteFile("a") \/ ReadFile("a") \/ ListFiles("a")
    \/ SetupViteApp("a") \/ RestartViteServer("a")
    \/ GetSandboxUrl("a") \/ GetSandboxInfo("a") \/ IsAlive("a")
    \/ CreatePing("a") \/ CreateContainer("a") \/ CreateStart("a") \/ CreateMkdir("a")
    \/ CreateTestF("a") \/ CreateInitWrite("a") \/ CreateUrl("a")
    \/ TerminateStop("a") \/ TerminateRemove("a")
    \/ RaceExec("a") \/ RaceTimeout("a") \/ LateEvent("a")
    \/ WriteDone("a") \/ ReadDone("a") \/ ListDone("a")
    \/ ExecDone("a") \/ RestartSettled("a")
    \/ GetUrlDone("a") \/ IsAliveDone("a")
    \/ ContainerExit
    \/ Tick

Spec == Init /\ [][Next]_vars

----------------------------------------------------------------------------
\* A second SelfHostedProvider instance on the same engine.  Its fields are
\* its own (private containerId, private sandboxInfo); what it shares with
\* the first instance is the engine's containers.

\* createSandbox of the second instance: the probe passed and createContainer
\* is issued
OtherCreateSandbox ==
    /\ other.pc = "idle"
    /\ calls < MaxCalls
    /\ calls' = calls + 1
    /\ other' = [other EXCEPT !.pc = "createContainer"]
    /\ UNCHANGED <<containerId, sandboxInfo, containers, call, hist, files, modelService>>

\* createContainer answered the second instance: a new container exists, or
\* the call failed and the catch block rethrows
OtherCreateContainer ==
    /\ other.pc = "createContainer"
    /\ \/ /\ containers' = Append(containers, "created")
          /\ files' = Append(files, NoFiles)
          /\ other' = [other EXCEPT !.pc = "startContainer", !.cid = Len(containers) + 1]
       \/ /\ other' = [other EXCEPT !.pc = "idle"]
          /\ UNCHANGED <<containers, files>>
    /\ UNCHANGED <<containerId, sandboxInfo, call, calls, hist, modelService>>

\* startContainer answered the second instance: it records its handle,
\* seeds its working directory and records its SandboxInfo
OtherStart ==
    /\ other.pc = "startContainer"
    /\ LET id == StartedHandle(other) IN
       /\ containers' = SetStatus(other.cid, "running")
       /\ files' = IF id \in DOMAIN files
                   THEN [files EXCEPT ![id] =
                            Written(@, FullPath("package.json"), DefaultPackageJson)]
                   ELSE files
       /\ other' = [other EXCEPT !.pc = "idle", !.cid = NoContainer, !.containerId = id,
                                 !.sandboxInfo = SandboxInfo(calls, UrlOfUnchecked(other, "3001"))]
    /\ UNCHANGED <<containerId, sandboxInfo, call, calls, hist, modelService>>

\* terminate of the second instance: without a handle it returns at once,
\* otherwise stopContainer(this.containerId) is issued
OtherTerminate ==
    /\ other.pc = "idle"
    /\ other.containerId # NoContainer
    /\ calls < MaxCalls
    /\ calls' = calls + 1
    /\ other' = [other EXCEPT !.pc = "stop"]
    /\ UNCHANGED <<containerId, sandboxInfo, containers, call, hist, files, modelService>>

\* stopContainer answered the second instance: removeContainer is issued on
\* the same handle, or the error is swallowed and finally clears the fields
OtherStop ==
    /\ other.pc = "stop"
    /\ \/ /\ StatusOf(other.containerId) = "running"
          /\ containers' = SetStatus(other.containerId, "exited")
          /\ other' = [other EXCEPT !.pc = "remove"]
       \/ /\ other' = NoOther
          /\ UNCHANGED containers
    /\ UNCHANGED <<containerId, sandboxInfo, call, calls, hist, files, modelService>>

\* removeContainer answered the second instance; finally clears its fields
OtherRemove ==
    /\ other.pc = "remove"
    /\ \E ok \in BOOLEAN :
          /\ ok => StatusOf(other.containerId) \in {"created", "running", "exited"}
          /\ containers' = IF ok THEN SetStatus(other.containerId, "removed") ELSE containers
    /\ other' = NoOther
    /\ UNCHANGED <<containerId, sandboxInfo, call, calls, hist, files, modelService>>

\* Two provider instances, each driven by its own caller, interleave at
\* every await
NextTwo ==
    \/ CreateSandbox("a") \/ CreatePing("a") \/ CreateContainer("a") \/ CreateStart("a")
    \/ CreateMkdir("a") \/ CreateTestF("a") \/ CreateInitWrite("a") \/ CreateUrl("a")
    \/ Terminate("a") \/ TerminateStop("a") \/ TerminateRemove("a")
    \/ WriteFile("a") \/ WriteDone("a")
    \/ OtherCreateSandbox \/ OtherCreateContainer \/ OtherStart
    \/ OtherTerminate \/ OtherStop \/ OtherRemove

SpecTwo == Init /\ [][NextTwo]_vars

----------------------------------------------------------------------------
\* The optional capabilities as the abstract SandboxProvider implements them,
\* which is what a provider that does not override them runs.

OptionalCapabilities == {"setupViteApp", "restartViteServer"}

NotImplementedMsg(name) == <<name, " not implemented for this provider">>

\* a default that does nothing and resolves
DefaultResolves(name) == Return(Void)

\* throw new Error('<name> not implemented for this provider')
DefaultImplementation(name) == Throw(Error(NotImplementedMsg(name)))

\* the async method rejects at once: no await, no engine call, no field write
BaseCapability(t, name) ==
    /\ CanStart(t)
    /\ call' = [call EXCEPT ![t] =
                    Settle(Fresh(t, "base." \o name, <<>>), DefaultImplementation(name))]
    /\ calls' = calls + 1
    /\ UNCHANGED <<containerId, sandboxInfo, containers, hist, files, other, modelService>>

BaseSetupViteApp(t) == BaseCapability(t, "setupViteApp")

BaseRestartViteServer(t) == BaseCapability(t, "restartViteServer")

\* provisioning and teardown bring the provider into each of its states; the
\* inherited defaults are invoked in any of them
NextBase ==
    \/ CreateSandbox("a") \/ CreatePing("a") \/ CreateContainer("a") \/ CreateStart("a")
    \/ CreateMkdir("a") \/ CreateTestF("a") \/ CreateInitWrite("a") \/ CreateUrl("a")
    \/ Terminate("a") \/ TerminateStop("a") \/ TerminateRemove("a")
    \/ BaseSetupViteApp("a") \/ BaseRestartViteServer("a")

SpecBase == Init /\ [][NextBase]_vars

----------------------------------------------------------------------------
\* The OpenRouter model service: a module-level cache in front of a fetch.

\* the lists the API can answer with (models are named by their id)
ModelLists == {<<>>, <<"m1">>, <<"m2", "m1">>}

\* what a fetch can meet: no API key, a response that is not ok, an
\* exception, a body without data, a body with data
FetchOutcomes ==
    {[kind |-> k, data |-> <<>>] : k \in {"nokey", "notok", "threw", "nodata"}}
        \cup {[kind |-> "json", data |-> d] : d \in ModelLists}

\* fetchOpenRouterModels: data.data || [], and [] on every failure
fetchOpenRouterModels(o) == IF o.kind = "json" THEN o.data ELSE <<>>

\* a cache that is consulted whatever forceRefresh says
CacheHitForced(forceRefresh, now) ==
    /\ modelService.cachedModels # NoCachedModels
    /\ now - modelService.cachedModels.timestamp < CACHE_DURATION

\* !forceRefresh && cachedModels && (now - cachedModels.timestamp) < CACHE_DURATION
CacheHit(forceRefresh, now) ==
    /\ ~forceRefresh
    /\ modelService.cachedModels # NoCachedModels
    /\ now - modelService.cachedModels.timestamp < CACHE_DURATION

\* a timestamp taken when the fetch has answered
StampAtCompletion(c) == modelService.now

\* timestamp: now, the Date.now() read on entry to getModels
Stamp(c) == c.now

ModelCallReturned(c) == c.pc \in {"idle", "done"}

\* the models without a price, and those of the popular providers
FreeModels == {"m1"}
PopularModels == {"m2"}

\* the comparator of getRecommendedModels orders by: free first, then
\* popular provider first
Rank(m) == (IF m \in FreeModels THEN 0 ELSE 2) + (IF m \in PopularModels THEN 0 ELSE 1)

RECURSIVE Insert(_, _)
\* m put into the sorted list xs behind every element that does not rank after it
Insert(xs, m) ==
    IF xs = <<>> THEN <<m>>
    ELSE IF Rank(Head(xs)) <= Rank(m) THEN <<Head(xs)>> \o Insert(Tail(xs), m)
    ELSE <<m>> \o xs

RECURSIVE sort(_)
\* Array.prototype.sort with that comparator (stable)
sort(xs) == IF xs = <<>> THEN <<>> ELSE Insert(sort(SubSeq(xs, 1, Len(xs) - 1)), xs[Len(xs)])

\* models.sort(...) sorts the array it is called on: what that array holds
\* afterwards
SortedInPlace(xs) == sort(xs)

\* .slice(0, limit)
slice(xs, limit) == SubSeq(xs, 1, IF limit < Len(xs) THEN limit ELSE Len(xs))

Limits == 1..MaxLimit

\* what the caller of getModels does with the array it is given:
\* getRecommendedModels sorts it and returns a slice of it
Delivered(c, models) ==
    IF c.op = "getRecommendedModels" THEN slice(sort(models), c.limit) ELSE models

\* the array after the caller of getModels is done with it
Left(c, models) ==
    IF c.op = "getRecommendedModels" THEN SortedInPlace(models) ELSE models

\* getModels(forceRefresh) is entered, by a caller or by
\* getRecommendedModels(limit): the clock is read, then the cached array is
\* returned or fetchOpenRouterModels is awaited
EnterGetModels(t, op, forceRefresh, limit) ==
    LET old == modelService.call[t]
        c == [NoModelCall EXCEPT
                 !.op = op, !.force = forceRefresh, !.limit = limit,
                 !.now = modelService.now, !.seen = modelService.lastFetch,
                 !.prev = [op |-> old.op, force |-> old.force, now |-> old.now,
                           res |-> old.res, fetched |-> old.fetched]]
        hit == CacheHit(forceRefresh, c.now)
        cached == modelService.cachedModels
    IN modelService' =
          [modelService EXCEPT
              !.calls = @ + 1,
              !.cachedModels = IF hit THEN [cached EXCEPT !.models = Left(c, @)] ELSE @,
              !.call[t] =
                  IF hit
                  THEN [c EXCEPT !.pc = "done", !.res = Delivered(c, cached.models)]
                  ELSE [c EXCEPT !.pc = "fetch", !.fetched = TRUE]]

GetModels(t) ==
    /\ ModelCallReturned(modelService.call[t])
    /\ modelService.calls < MaxCalls
    /\ \E forceRefresh \in BOOLEAN : EnterGetModels(t, "getModels", forceRefresh, 0)
    /\ UNCHANGED <<containerId, sandboxInfo, containers, call, calls, hist, files, other>>

\* getRecommendedModels(limit): getModels() is awaited, its array is sorted
\* and the first `limit` models are returned
GetRecommendedModels(t) ==
    /\ ModelCallReturned(modelService.call[t])
    /\ modelService.calls < MaxCalls
    /\ \E limit \in Limits : EnterGetModels(t, "getRecommendedModels", FALSE, limit)
    /\ UNCHANGED <<containerId, sandboxInfo, containers, call, calls, hist, files, other>>

\* a cache that takes whatever the fetch gave
AlwaysCacheable(models) == TRUE

\* if (models.length > 0)
Cacheable(models) == Len(models) > 0

\* fetchOpenRouterModels answered: a non-empty list is cached under the
\* time read on entry; the list is returned
FetchDone(t) ==
    /\ modelService.call[t].pc = "fetch"
    /\ \E o \in FetchOutcomes :
          LET c == modelService.call[t]
              models == fetchOpenRouterModels(o)
          IN modelService' =
                [modelService EXCEPT
                    !.cachedModels =
                        IF Cacheable(models)
                        THEN [models |-> Left(c, models), timestamp |-> Stamp(c)]
                        ELSE @,
                    !.lastFetch =
                        IF Len(models) > 0
                        THEN [models |-> models, timestamp |-> c.now]
                        ELSE @,
                    !.call[t] = [c EXCEPT !.pc = "done", !.res = Delivered(c, models),
                                          !.how = o.kind]]
    /\ UNCHANGED <<containerId, sandboxInfo, containers, call, calls, hist, files, other>>

\* Date.now() moves on
ClockStep ==
    /\ modelService.now < MaxLifetimes * CACHE_DURATION
    /\ modelService' = [modelService EXCEPT !.now = @ + ClockStepMs]
    /\ UNCHANGED <<containerId, sandboxInfo, containers, call, calls, hist, files, other>>

\* one caller invokes getModels again and again, each call awaited, while
\* time passes
NextModels == GetModels("a") \/ FetchDone("a") \/ ClockStep

SpecModels == Init /\ [][NextModels]_vars

\* the same caller also asks for the recommended models
NextRecommended ==
    GetModels("a") \/ GetRecommendedModels("a") \/ FetchDone("a") \/ ClockStep

SpecRecommended == Init /\ [][NextRecommended]_vars

\* A provider is provisioned and runs command strings of every shape
NextArgv ==
    \/ CreateSandbox("a") \/ CreatePing("a") \/ CreateContainer("a") \/ CreateStart("a")
    \/ CreateMkdir("a") \/ CreateTestF("a") \/ CreateInitWrite("a") \/ CreateUrl("a")
    \/ RunAnyCommand("a") \/ RaceExec("a")

SpecArgv == Init /\ [][NextArgv]_vars

\* A provider is provisioned, its manifest is or is not replaced by the
\* caller, and the Vite app is set up
NextVite ==
    \/ CreateSandbox("a") \/ CreatePing("a") \/ CreateContainer("a") \/ CreateStart("a")
    \/ CreateMkdir("a") \/ CreateTestF("a") \/ CreateInitWrite("a") \/ CreateUrl("a")
    \/ WriteManifest("a") \/ WriteDone("a")
    \/ SetupViteApp("a") \/ RaceExec("a") \/ ExecDone("a") \/ ReadDone("a")

SpecVite == Init /\ [][NextVite]_vars

\* One caller provisions while another tears down, on the same provider
\* instance: terminate may run at any await of createSandbox
NextRace ==
    \/ CreateSandbox("a") \/ CreatePing("a") \/ CreateContainer("a") \/ CreateStart("a")
    \/ CreateMkdir("a") \/ CreateTestF("a") \/ CreateInitWrite("a") \/ CreateUrl("a")
    \/ Terminate("b") \/ TerminateStop("b") \/ TerminateRemove("b")

SpecRace == Init /\ [][NextRace]_vars

\* Two callers run commands on one provisioned provider; the event that lost
\* a race of one caller may arrive while a command of the other is under way
NextLate ==
    \/ CreateSandbox("a") \/ CreatePing("a") \/ CreateContainer("a") \/ CreateStart("a")
    \/ CreateMkdir("a") \/ CreateTestF("a") \/ CreateInitWrite("a") \/ CreateUrl("a")
    \/ RunCommand("a") \/ RaceExec("a") \/ RaceTimeout("a") \/ LateEvent("a")
    \/ RunCommand("b") \/ RaceExec("b") \/ RaceTimeout("b") \/ LateEvent("b")
    \/ Tick

SpecLate == Init /\ [][NextLate]_vars

\* The provisioning, command and teardown operations alone
NextCommands ==
    \/ CreateSandbox("a") \/ Terminate("a") \/ RunCommand("a") \/ InstallPackages("a")
    \/ CreatePing("a") \/ CreateContainer("a") \/ CreateStart("a") \/ CreateMkdir("a")
    \/ CreateTestF("a") \/ CreateInitWrite("a") \/ CreateUrl("a")
    \/ TerminateStop("a") \/ TerminateRemove("a")
    \/ RaceExec("a") \/ RaceTimeout("a") \/ LateEvent("a")
    \/ Tick

\* Time passes and the event loop runs every timer that is due; nothing is
\* assumed of the engine, which may never answer
SpecLive ==
    Init /\ [][NextCommands]_vars /\ WF_vars(Tick) /\ WF_vars(RaceTimeout("a"))

\* the steps of the operations that act on the container, for caller t
ContainerSteps(t) ==
    \/ RunCommand(t) \/ WriteFile(t) \/ ReadFile(t) \/ ListFiles(t)
    \/ RaceExec(t) \/ RaceTimeout(t) \/ LateEvent(t)
    \/ WriteDone(t) \/ ReadDone(t) \/ ListDone(t)

\* Two callers share the provider instance: an operation of one may be
\* invoked while an operation of the other is suspended at an await
NextConc ==
    \/ CreateSandbox("a") \/ CreatePing("a") \/ CreateContainer("a") \/ CreateStart("a")
    \/ CreateMkdir("a") \/ CreateTestF("a") \/ CreateInitWrite("a") \/ CreateUrl("a")
    \/ ContainerSteps("a")
    \/ ContainerSteps("b")
    \/ Tick

SpecConc == Init /\ [][NextConc]_vars

----------------------------------------------------------------------------
(* Properties *)

Done(c) == c.pc = "done"
Raised(c) == c.res.kind = "throw"
RaisedNotProvisioned(c) == c.res = Throw(Error(NotProvisionedMsg))
Issued(c, k) == \E i \in DOMAIN c.log : c.log[i].k = k
IssuedOn(c, k, id) == \E i \in DOMAIN c.log : c.log[i].k = k /\ c.log[i].c = id

\* C1: whenever runCommand is invoked while the provider holds no container
\* handle (never provisioned, or after terminate), it has raised the
\* not-provisioned error, has returned no CommandResult and has issued no
\* call to the container engine.
C1_RunCommandNotProvisioned ==
    \A t \in Callers :
        (call[t].op = "runCommand" /\ call[t].h0 = 0) =>
            /\ Done(call[t])
            /\ RaisedNotProvisioned(call[t])
            /\ call[t].log = <<>>

\* runCommand has raised on a provider whose sandbox was terminated
C1_Witness ==
    \E t \in Callers :
        /\ call[t].op = "runCommand" /\ call[t].h0 = 0 /\ Done(call[t])
        /\ call[t].prevOp = "terminate"
        /\ \E c \in DOMAIN containers : containers[c] = "removed"

GuardedOps ==
    {"writeFile", "readFile", "listFiles", "installPackages", "setupViteApp",
     "restartViteServer"}

\* C2: whenever writeFile, readFile, listFiles, installPackages,
\* setupViteApp or restartViteServer is invoked with no container handle
\* held, it has raised the not-provisioned error and issued no call to the
\* container engine, and the handle and the cached SandboxInfo are absent
\* afterwards.
C2_OperationsNotProvisioned ==
    \A t \in Callers :
        (call[t].op \in GuardedOps /\ call[t].h0 = 0) =>
            /\ Done(call[t])
            /\ RaisedNotProvisioned(call[t])
            /\ call[t].log = <<>>
            /\ containerId = 0
            /\ sandboxInfo = NoInfo

\* setupViteApp has raised on a provider whose sandbox was terminated
C2_Witness ==
    \E t \in Callers :
        /\ call[t].op = "setupViteApp" /\ call[t].h0 = 0 /\ Done(call[t])
        /\ call[t].prevOp = "terminate"
        /\ \E c \in DOMAIN containers : containers[c] = "removed"

\* C3: terminate never raises; a terminate that directly follows a
\* terminate returns at once without issuing stopContainer or
\* removeContainer; after a terminate the handle and the cached SandboxInfo
\* are absent, so that isAlive() answers false and getSandboxInfo() absent.
C3_TerminateIdempotent ==
    \A t \in Callers :
        /\ (call[t].op = "terminate" /\ Done(call[t])) =>
                /\ call[t].res = Return(Void)
                /\ containerId = 0 /\ sandboxInfo = NoInfo
        /\ (call[t].op = "terminate" /\ call[t].prevOp = "terminate") =>
                Done(call[t]) /\ call[t].log = <<>>
        /\ (call[t].op = "isAlive" /\ call[t].prevOp = "terminate") =>
                Done(call[t]) /\ call[t].res = Return(BoolValue(FALSE))
        /\ (call[t].op = "getSandboxInfo" /\ call[t].prevOp = "terminate") =>
                call[t].res = Return(InfoValue(NoInfo))

\* a second terminate in a row has returned, after a first one that had a
\* container to tear down
C3_Witness ==
    \E t \in Callers :
        /\ call[t].op = "terminate" /\ call[t].prevOp = "terminate" /\ Done(call[t])
        /\ \E c \in DOMAIN containers : containers[c] = "removed"

\* C4 as claimed: after createSandbox has succeeded and until terminate is
\* called, the cached SandboxInfo and every getSandboxInfo() carry the
\* sandboxId that createSandbox returned first, and every isAlive() answers
\* true, whatever was invoked in between.
C4_SameSandboxIdAndAlive ==
    hist.first # 0 =>
        /\ sandboxInfo.sandboxId = hist.first
        /\ \A t \in Callers :
              /\ (call[t].op = "getSandboxInfo" /\ Done(call[t])) =>
                      call[t].res.v.info.sandboxId = hist.first
              /\ (call[t].op = "isAlive" /\ Done(call[t])) =>
                      call[t].res = Return(BoolValue(TRUE))

C4_InfoOfLatestCreate ==
    hist.last # 0 =>
        /\ containerId # 0
        /\ sandboxInfo.sandboxId = hist.last
        /\ \A t \in Callers :
              (call[t].op = "getSandboxInfo" /\ Done(call[t])) =>
                  call[t].res.v.info.sandboxId = hist.last

C4_AliveOnlyIfRunning ==
    \A t \in Callers :
        (call[t].pc = "alive" /\ call'[t].res = Return(BoolValue(TRUE))) =>
            /\ containerId # 0
            /\ StatusOf(containerId) = "running"

\* C4 amended: after createSandbox has succeeded and until terminate is
\* called, a handle is held and the cached SandboxInfo and every
\* getSandboxInfo() carry the sandboxId returned by the most recent
\* successful createSandbox; isAlive() answers true only when the engine
\* reports the held container as running.
C4_Amended == [](C4_InfoOfLatestCreate) /\ [][C4_AliveOnlyIfRunning]_vars

\* getSandboxInfo() has answered after a second createSandbox replaced the
\* sandbox of the first
C4_Witness ==
    \E t \in Callers :
        /\ call[t].op = "getSandboxInfo" /\ Done(call[t])
        /\ hist.first # 0 /\ hist.last # hist.first
        /\ call[t].res.v.info.sandboxId = hist.last

\* C5: terminate never raises and ends with the handle and the cached
\* SandboxInfo cleared, whether stopContainer and removeContainer succeed
\* or fail; a createSandbox that succeeds afterwards holds a container
\* created by that call.
C5_TerminateAlwaysClears ==
    \A t \in Callers :
        /\ (call[t].op = "terminate" /\ Done(call[t])) =>
                /\ call[t].res = Return(Void)
                /\ containerId = 0
                /\ sandboxInfo = NoInfo
        /\ (call[t].op = "createSandbox" /\ call[t].prevOp = "terminate"
               /\ Done(call[t]) /\ ~Raised(call[t])) =>
                /\ containerId = Len(containers)
                /\ IssuedOn(call[t], "startContainer", containerId)
                /\ sandboxInfo = call[t].res.v.info

\* createSandbox has succeeded after a terminate whose stopContainer failed
C5_Witness ==
    \E t \in Callers :
        /\ call[t].op = "createSandbox" /\ call[t].prevOp = "terminate"
        /\ Done(call[t]) /\ ~Raised(call[t])
        /\ containerId = 2 /\ StatusOf(1) = "running"

\* C6 as claimed: a terminate invoked while a handle is held has attempted
\* both stopContainer and removeContainer on that container by the time it
\* returns.
C6_StopAndRemoveAttempted ==
    \A t \in Callers :
        (call[t].op = "terminate" /\ Done(call[t]) /\ call[t].h0 # 0) =>
            /\ IssuedOn(call[t], "stopContainer", call[t].h0)
            /\ IssuedOn(call[t], "removeContainer", call[t].h0)

Live == {c \in DOMAIN containers : containers[c] = "running"}

\* C7 as claimed: at most one container that the provider created and
\* started has not been stopped or removed, and it is the one the handle
\* refers to.
C7_AtMostOneLiveSandbox ==
    /\ Cardinality(Live) <= 1
    /\ \A c \in Live : containerId = c

\* C7 on the sequences the claim singles out: while terminate has not been
\* called since the first successful createSandbox
C7_AtMostOneLiveSandboxBeforeTerminate ==
    hist.first # 0 => C7_AtMostOneLiveSandbox

CommandOps == {"runCommand", "installPackages"}

\* C8: every CommandResult returned by runCommand or installPackages has
\* success = (exitCode = 0), whether the exec completed, the engine call
\* failed or the timer fired first.
C8_SuccessIffExitCodeZero ==
    \A t \in Callers :
        (call[t].op \in CommandOps /\ Done(call[t]) /\ ~Raised(call[t])) =>
            /\ call[t].res.v.t = "cmd"
            /\ call[t].res.v.success = (call[t].res.v.exitCode = 0)

\* installPackages has returned the CommandResult of a timeout
C8_Witness ==
    \E t \in Callers :
        /\ call[t].op = "installPackages" /\ Done(call[t])
        /\ call[t].how = "timeout" /\ call[t].res.v.exitCode = 1

\* C9 as claimed: on a provisioned sandbox runCommand does not raise; a
\* command that exits non-zero, an exec that fails in the engine and a
\* timeout each come back as a CommandResult with success = false and the
\* error text in stderr.
C9_FailuresAreResults ==
    \A t \in Callers :
        (call[t].op = "runCommand" /\ call[t].h0 # 0 /\ Done(call[t])) =>
            /\ call[t].res.kind = "return"
            /\ (call[t].how = "ran" /\ call[t].real # 0) =>
                   ~call[t].res.v.success /\ call[t].res.v.stderr = <<"err">>
            /\ call[t].how = "failed" =>
                   ~call[t].res.v.success /\ call[t].res.v.stderr = EngineError.msg
            /\ call[t].how = "timeout" =>
                   ~call[t].res.v.success /\ call[t].res.v.stderr = <<"Command timeout">>

Racing(t) == call[t].op = "runCommand" /\ call[t].pc = "race"

\* C10: a runCommand that waits on the engine returns; its timer runs for
\* resources.timeout = 30000 ms and no longer, and when it fires before the
\* exec has answered (also when the exec never answers) the result is
\* success = false, exitCode 1, stderr 'Command timeout'.
C10_ReturnsByTimeout ==
    /\ \A t \in Callers : Racing(t) ~> Done(call[t])
    /\ [](\A t \in Callers : Racing(t) => call[t].elapsed <= 30000)
    /\ [](\A t \in Callers :
            (call[t].op = "runCommand" /\ Done(call[t]) /\ call[t].how = "timeout") =>
                call[t].res =
                    Return([t |-> "cmd", stdout |-> "", stderr |-> <<"Command timeout">>,
                            exitCode |-> 1, success |-> FALSE]))

\* runCommand has returned by timeout, the exec not having answered
C10_Witness ==
    \E t \in Callers :
        /\ call[t].op = "runCommand" /\ Done(call[t])
        /\ call[t].how = "timeout" /\ call[t].late = "exec"

ContainerOps == {"runCommand", "writeFile", "readFile", "listFiles"}

\* the timer of a runCommand fires: handle and cached info are those the
\* call was invoked with
C11_TimeoutKeepsFields ==
    \A t \in Callers :
        (call[t].op = "runCommand" /\ call[t].pc = "race" /\ call'[t].how = "timeout") =>
            /\ Done(call'[t])
            /\ containerId' = call[t].h0 /\ containerId' = containerId
            /\ sandboxInfo' = sandboxInfo

\* the operation invoked next after a timed-out runCommand is issued to the
\* engine on the container of the timed-out call
C11_NextOperationAccepted ==
    \A t \in Callers :
        (/\ call[t].op = "runCommand" /\ Done(call[t]) /\ call[t].how = "timeout"
         /\ call'[t].n > call[t].n /\ call'[t].op \in ContainerOps) =>
            /\ InFlight(call'[t])
            /\ call'[t].pend.k \in {"execCommand", "writeFile", "readFile", "listFiles"}
            /\ call'[t].pend.c = call[t].h0

\* C11: a runCommand that times out leaves the container handle and the
\* cached SandboxInfo as they were when it was invoked, and a runCommand,
\* writeFile, readFile or listFiles invoked next is not refused: it is issued
\* to the engine against the same container.
C11_TimeoutLeavesStateIntact ==
    [][C11_TimeoutKeepsFields /\ C11_NextOperationAccepted]_vars

\* a runCommand has timed out on a provisioned sandbox, whose handle and
\* SandboxInfo are still held
C11_Witness ==
    \E t \in Callers :
        /\ call[t].op = "runCommand" /\ Done(call[t]) /\ call[t].how = "timeout"
        /\ containerId = call[t].h0 /\ containerId # 0
        /\ sandboxInfo.sandboxId # 0

\* the invocations of container operations whose engine call on container c
\* has not answered yet
InFlightOn(c) ==
    {t \in Callers : /\ call[t].op \in ContainerOps /\ InFlight(call[t])
                     /\ call[t].pend.k # "none" /\ call[t].pend.c = c}

\* C12 as claimed: whatever the interleaving of the callers of one provider
\* instance, at most one runCommand, writeFile, readFile or listFiles has an
\* engine call in flight against a given container.
C12_OneInFlightPerContainer ==
    \A c \in DOMAIN containers : Cardinality(InFlightOn(c)) <= 1

\* C13: a createSandbox whose connectivity probe failed has raised the
\* engine-unavailable error having issued nothing but the probe (no
\* container created or started), the handle is the one held when it was
\* invoked, and a provider that held none still holds no handle and no
\* SandboxInfo.
C13_ProbeFailureAborts ==
    \A t \in Callers :
        (call[t].op = "createSandbox" /\ call[t].how = "down") =>
                /\ Done(call[t])
                /\ call[t].log = <<EngineCall("ping", 0, <<>>)>>
                /\ call[t].res = Throw(Error(DockerUnavailableMsg))
                /\ containerId = call[t].h0
                /\ call[t].h0 = 0 => (containerId = 0 /\ sandboxInfo = NoInfo)

\* createSandbox has failed at its probe on a provider that holds nothing
\* and no container exists
C13_Witness ==
    \E t \in Callers :
        /\ call[t].op = "createSandbox" /\ Done(call[t]) /\ call[t].how = "down"
        /\ call[t].res = Throw(Error(DockerUnavailableMsg))
        /\ call[t].h0 = 0 /\ containers = <<>>

\* C14 as claimed: a createSandbox that got as far as seeding the working
\* directory (its container is started and the mkdir has been issued)
\* returns a SandboxInfo and leaves the provider holding the container,
\* whatever the mkdir, the manifest test and the manifest write answered.
C14_SeedingFailureTolerated ==
    \A t \in Callers :
        (call[t].op = "createSandbox" /\ Done(call[t]) /\ Issued(call[t], "execCommand")) =>
            /\ call[t].res.kind = "return"
            /\ call[t].res.v.t = "info"
            /\ containerId # 0

\* C15: a createSandbox that got as far as resolving the published host
\* port returns a SandboxInfo and caches it; its url is empty when the
\* inspection failed or 3000/tcp has no binding, and is
\* http://localhost:<HostPort> otherwise.
C15_UrlAbsentWhenUnresolved ==
    \A t \in Callers :
        (call[t].op = "createSandbox" /\ call[t].how \in InspectOutcomes) =>
            /\ Done(call[t])
            /\ call[t].res.kind = "return"
            /\ call[t].res.v.t = "info"
            /\ sandboxInfo = call[t].res.v.info
            /\ call[t].res.v.info.sandboxId # 0
            /\ call[t].res.v.info.url =
                   IF call[t].how \in {"failed", ""} THEN <<>>
                   ELSE <<"http://localhost:", call[t].how>>

\* createSandbox has returned after the inspection of its container failed
C15_Witness ==
    \E t \in Callers :
        /\ call[t].op = "createSandbox" /\ Done(call[t]) /\ call[t].how = "failed"
        /\ call[t].res.kind = "return" /\ call[t].res.v.info.url = <<>>
        /\ containerId # 0

\* C16 as claimed: a createSandbox invoked on a provider that holds nothing
\* and that has raised, at whichever step, leaves the provider holding no
\* container handle and no SandboxInfo.
C16_FailedCreateLeavesUnprovisioned ==
    \A t \in Callers :
        (call[t].op = "createSandbox" /\ call[t].h0 = 0
            /\ Done(call[t]) /\ Raised(call[t])) =>
                /\ containerId = 0
                /\ sandboxInfo = NoInfo

\* ['npm', 'install', ...names]
NpmInstallArgv(names) ==
    <<<<"npm">>, <<"install">>>> \o [i \in 1..Len(names) |-> <<names[i]>>]

\* C17 as claimed: an installPackages(names) invoked on a provisioned
\* sandbox issues one exec, whose argv is npm, install and the names in
\* order, and when that command has run the CommandResult returned carries
\* the exit code the command exited with.
C17_InstallArgvAndExitCode ==
    \A t \in Callers :
        (call[t].op = "installPackages" /\ call[t].h0 # 0) =>
            /\ call[t].log =
                   <<EngineCall("execCommand", call[t].h0, NpmInstallArgv(call[t].arg))>>
            /\ (Done(call[t]) /\ call[t].how = "ran") =>
                   /\ call[t].res.kind = "return"
                   /\ call[t].res.v.exitCode = call[t].real

\* C18: getSandboxUrl never raises.  With no handle held it returns absent
\* without asking the engine; otherwise it inspects the held container and
\* returns absent when the inspection fails or 3000/tcp has no published
\* host port, and http://localhost:<HostPort> of that inspection otherwise,
\* whatever url the SandboxInfo cached at creation carries.
C18_UrlReadAtCallTime ==
    \A t \in Callers :
        call[t].op = "getSandboxUrl" =>
            /\ ~Raised(call[t])
            /\ call[t].h0 = 0 =>
                   /\ Done(call[t]) /\ call[t].log = <<>>
                   /\ call[t].res = Return(UrlValue(<<>>))
            /\ call[t].h0 # 0 =>
                   call[t].log = <<EngineCall("getContainerInfo", call[t].h0, <<>>)>>
            /\ (call[t].h0 # 0 /\ Done(call[t])) =>
                   call[t].res =
                       Return(UrlValue(IF call[t].how \in {"failed", ""} THEN <<>>
                                       ELSE <<"http://localhost:", call[t].how>>))

\* getSandboxUrl has returned the URL of a port that was not yet published
\* when createSandbox cached its SandboxInfo
C18_Witness ==
    \E t \in Callers :
        /\ call[t].op = "getSandboxUrl" /\ Done(call[t])
        /\ call[t].res = Return(UrlValue(<<"http://localhost:", "3001">>))
        /\ sandboxInfo.sandboxId # 0 /\ sandboxInfo.url = <<>>

\* C19: isAlive never raises.  With no handle held it returns false without
\* asking the engine; otherwise it inspects the held container and returns
\* true exactly when that inspection succeeded and reported the status
\* running, and false when the inspection failed.
C19_AliveOnlyWhenRunning ==
    \A t \in Callers :
        call[t].op = "isAlive" =>
            /\ ~Raised(call[t])
            /\ call[t].h0 = 0 =>
                   /\ Done(call[t]) /\ call[t].log = <<>>
                   /\ call[t].res = Return(BoolValue(FALSE))
            /\ call[t].h0 # 0 =>
                   call[t].log = <<EngineCall("isContainerRunning", call[t].h0, <<>>)>>
            /\ (call[t].h0 # 0 /\ Done(call[t])) =>
                   call[t].res = Return(BoolValue(call[t].how = "running"))

\* isAlive has returned false because the inspection of the held, running
\* container failed
C19_Witness ==
    \E t \in Callers :
        /\ call[t].op = "isAlive" /\ Done(call[t]) /\ call[t].how = "failed"
        /\ call[t].res = Return(BoolValue(FALSE))
        /\ containerId # 0 /\ StatusOf(containerId) = "running"

\* the number of awaited engine calls in the code of each operation
StepsOf(op) ==
    CASE op = "createSandbox" -> 7
      [] op = "setupViteApp" -> Len(SetupPlan)
      [] op \in {"terminate", "restartViteServer"} -> 2
      [] op \in {"idle", "getSandboxInfo"} -> 0
      [] OTHER -> 1

\* C20: within one invocation no engine call is issued twice, whether it
\* succeeded or failed, and the invocation issues no more engine calls than
\* its code has steps.
C20_NoRetries ==
    \A t \in Callers :
        /\ \A i, j \in DOMAIN call[t].log :
               i # j => call[t].log[i] # call[t].log[j]
        /\ Len(call[t].log) <= StepsOf(call[t].op)
        /\ (call[t].op = "createSandbox" /\ Done(call[t]) /\ Raised(call[t])) =>
               \A k \in {"ping", "createContainer", "startContainer", "writeFile"} :
                   Cardinality({i \in DOMAIN call[t].log : call[t].log[i].k = k}) <= 1

\* createSandbox has raised after its createContainer failed, the call
\* having been issued once
C20_Witness ==
    \E t \in Callers :
        /\ call[t].op = "createSandbox" /\ Done(call[t])
        /\ call[t].res = Throw(Wrapped(CreatePrefix, EngineError))
        /\ call[t].log = <<EngineCall("ping", 0, <<>>), EngineCall("createContainer", 0, <<>>)>>

\* C21 as claimed, for its first step: a setupViteApp whose package install
\* failed (the exec failed in the engine, or timed out) has raised without
\* issuing any further step.
C21_SetupAbortsOnInstallFailure ==
    \A t \in Callers :
        (call[t].op = "setupViteApp" /\ call[t].how \in {"failed", "timeout"}) =>
            /\ Done(call[t]) /\ Raised(call[t])
            /\ Len(call[t].log) = 1

\* C22 as claimed: a readFile(p) that returns while the file at p holds
\* what a successful writeFile(p, c) stored returns exactly c.
C22_WriteReadRoundTrip ==
    \A t \in Callers :
        (call[t].op = "readFile" /\ Done(call[t]) /\ call[t].h0 # 0
            /\ call[t].how = "ran" /\ call[t].real = 0 /\ ~Raised(call[t])) =>
            \A c \in Contents :
                files[call[t].h0][call[t].arg[1]] = Echo(<<c>>) =>
                    call[t].res = Return(StrValue(<<c>>))

\* the names in the result of a listFiles that returned
Listed(c) == {c.res.v.files[i] : i \in DOMAIN c.res.v.files}

\* the invocation directly follows a createSandbox that succeeded
FreshlyProvisioned(c) ==
    c.prevOp = "createSandbox" /\ c.h0 # 0 /\ sandboxInfo.sandboxId = c.n - 1

\* C23 as claimed: listFiles() without an argument asks the engine for the
\* listing of the working directory; what it returns holds neither ".",
\* ".." nor the total line, and directly after a successful createSandbox
\* it holds package.json.
C23_ListRootHasManifest ==
    \A t \in Callers :
        (call[t].op = "listFiles" /\ call[t].arg = <<>> /\ call[t].h0 # 0) =>
            /\ call[t].log = <<EngineCall("listFiles", call[t].h0, <<<<workingDirectory>>>>)>>
            /\ (Done(call[t]) /\ ~Raised(call[t]) /\ call[t].real = 0) =>
                   /\ Listed(call[t]) \cap {".", "..", "total"} = {}
                   /\ FreshlyProvisioned(call[t]) => "package.json" \in Listed(call[t])

FileOps == {"writeFile", "readFile", "listFiles"}

\* the engine call of the invocation failed: the client's call was
\* rejected, or the command it ran exited non-zero (cat on a missing file)
BackendFailed(c) == c.how = "failed" \/ (c.how = "ran" /\ c.real > 0)

\* C24 as claimed: a writeFile, readFile or listFiles on a provisioned
\* sandbox whose engine call failed has raised an error that ends with the
\* engine's message, and the container handle is the one it was invoked
\* with.
C24_FileFailuresAreRaised ==
    \A t \in Callers :
        (call[t].op \in FileOps /\ call[t].h0 # 0 /\ Done(call[t])
            /\ BackendFailed(call[t])) =>
            /\ Raised(call[t])
            /\ call[t].res.v.msg[Len(call[t].res.v.msg)] =
                   IF call[t].how = "failed" THEN "engine error" ELSE "err"
            /\ containerId = call[t].h0

\* what an instance can reach of the engine through handle h: the container's
\* status and its files
Reach(cs, fs, h) == IF h \in DOMAIN cs THEN <<cs[h], fs[h]>> ELSE <<"none">>

\* a step of the first instance's operations
StepOfFirst == call' # call

\* a step of the second instance's operations
StepOfOther == other' # other

C25_Disjoint ==
    containerId # NoContainer => containerId # other.containerId

C25_Frame ==
    /\ StepOfFirst =>
          /\ other' = other
          /\ Reach(containers', files', other.containerId)
                = Reach(containers, files, other.containerId)
    /\ StepOfOther =>
          /\ containerId' = containerId /\ sandboxInfo' = sandboxInfo
          /\ Reach(containers', files', containerId) = Reach(containers, files, containerId)

\* C25: two provider instances never hold the same container handle, and no
\* step of an operation of one instance (terminate included) changes the
\* other instance's handle, its SandboxInfo, or the status and files of the
\* container the other instance holds
C25_HandleOwnership == [](C25_Disjoint) /\ [][C25_Frame]_vars

\* the first instance has torn its sandbox down while the second one holds
\* a running container of its own
C25_Witness ==
    /\ call["a"].op = "terminate" /\ Done(call["a"]) /\ call["a"].h0 # NoContainer
    /\ StatusOf(call["a"].h0) = "removed"
    /\ other.containerId # NoContainer /\ StatusOf(other.containerId) = "running"
    /\ other.sandboxInfo # NoInfo

BaseOps == {"base." \o name : name \in OptionalCapabilities}

BaseNameOf(op) == CHOOSE name \in OptionalCapabilities : op = "base." \o name

\* every invocation of an inherited default has raised its not-implemented
\* error and issued no engine call
C26_Raises ==
    \A t \in Callers :
        call[t].op \in BaseOps =>
            /\ Done(call[t])
            /\ call[t].res = Throw(Error(NotImplementedMsg(BaseNameOf(call[t].op))))
            /\ call[t].log = <<>>

\* the step that invokes an inherited default leaves the provider's fields
\* and the engine as they were
C26_Frame ==
    \A t \in Callers :
        (call'[t] # call[t] /\ call'[t].op \in BaseOps) =>
            /\ containerId' = containerId
            /\ sandboxInfo' = sandboxInfo
            /\ containers' = containers

\* C26: the SandboxProvider defaults of setupViteApp and restartViteServer
\* raise the not-implemented error in every state of the provider, and
\* change neither its handle on the sandbox nor its SandboxInfo.
C26_DefaultsDecline == [](C26_Raises) /\ [][C26_Frame]_vars

\* a default was invoked on a provisioned provider, which is still provisioned
C26_Witness ==
    /\ call["a"].op = "base.restartViteServer" /\ Done(call["a"])
    /\ call["a"].h0 # NoContainer
    /\ containerId = call["a"].h0 /\ sandboxInfo # NoInfo

ModelDone(c) == c.op = "getModels" /\ c.pc = "done"

\* the invocation was made within the lifetime of the list it found fetched
WithinLifetime(c) == c.now < c.seen.timestamp + CACHE_DURATION

C28_AlwaysFetches ==
    \A t \in Callers :
        LET c == modelService.call[t] IN
        (c.op = "getModels" /\ c.force) => c.fetched

\* the call after a forced refresh that fetched a non-empty list, made within
\* that list's lifetime, returns it
C28_LaterCalls ==
    \A t \in Callers :
        LET c == modelService.call[t] IN
        (/\ ModelDone(c) /\ ~c.force
         /\ c.prev.op = "getModels" /\ c.prev.force /\ Len(c.prev.res) > 0
         /\ c.now < c.prev.now + CACHE_DURATION) => c.res = c.prev.res

\* the step in which a forced call's fetch answers with a non-empty list
\* makes that list the cached one, stamped with the call's time
C28_Replaces ==
    \A t \in Callers :
        LET c == modelService.call'[t] IN
        (/\ modelService.call[t].pc = "fetch" /\ c.pc = "done"
         /\ c.force /\ Len(c.res) > 0) =>
            modelService.cachedModels' = [models |-> c.res, timestamp |-> c.now]

\* C28: getModels(true) always performs a fetch, whatever the age of the
\* cache; a non-empty answer replaces the cached list and resets the cache
\* timestamp, and the following getModels() calls return the refreshed list.
C28_ForceRefresh == [](C28_AlwaysFetches /\ C28_LaterCalls) /\ [][C28_Replaces]_vars

\* a forced refresh found a fresh cache, replaced its list, and the next
\* getModels() returned the new list without fetching
C28_Witness ==
    LET c == modelService.call["a"] IN
    /\ ModelDone(c) /\ ~c.force /\ ~c.fetched
    /\ c.prev.op = "getModels" /\ c.prev.force
    /\ c.res = c.prev.res /\ Len(c.res) > 0
    /\ modelService.cachedModels.timestamp = c.prev.now
    /\ c.prev.now > 0

\* operations that occupy the container for their duration
BusyOps == ContainerOps \cup GuardedOps

OpInFlight(ops) == \E t \in Callers : call[t].op \in ops /\ InFlight(call[t])

\* the lifecycle state the provider is in, read off its fields and the
\* invocations that have not returned
Phase ==
    CASE OpInFlight({"createSandbox"}) -> "Provisioning"
      [] ~OpInFlight({"createSandbox"}) /\ OpInFlight({"terminate"}) -> "Terminating"
      [] ~OpInFlight({"createSandbox", "terminate"}) /\ NoHandle -> "Unprovisioned"
      [] ~OpInFlight({"createSandbox", "terminate"}) /\ ~NoHandle /\ OpInFlight(BusyOps) -> "Busy"
      [] OTHER -> "Ready"

C29_Entered ==
    /\ (Phase' = "Provisioning" /\ Phase # "Provisioning") => Phase = "Unprovisioned"
    /\ (Phase' = "Ready" /\ Phase # "Ready") => Phase \in {"Provisioning", "Busy"}

\* C29 as claimed: under every sequence of createSandbox, runCommand, file
\* operations and terminate, Provisioning is entered only from Unprovisioned,
\* and Ready only from Provisioning or Busy.
C29_LifecycleTransitions == [][C29_Entered]_vars

\* the engine calls of createSandbox, in the order of its awaits
CreateOrder ==
    <<"ping", "createContainer", "startContainer", "execCommand", "execCommand",
      "writeFile", "getContainerInfo">>

\* the position in CreateOrder of the i-th call an invocation has issued (the
\* manifest write is skipped when the existence check succeeds)
OrderedLog(log) ==
    \E f \in [DOMAIN log -> DOMAIN CreateOrder] :
        /\ \A i \in DOMAIN log : log[i].k = CreateOrder[f[i]]
        /\ \A i, j \in DOMAIN log : i < j => f[i] < f[j]
        /\ \A i \in DOMAIN log : CreateOrder[f[i]] # "writeFile" => f[i] = i \/ f[i] = i + 1

\* C30 as claimed: createSandbox issues probe, createContainer,
\* startContainer, the seeding calls and the URL inspection in this order,
\* each only after the one before it has succeeded, and the handle is not
\* recorded while the invocation has not returned: it is recorded as the
\* last step, together with the SandboxInfo.
C30_HandleRecordedLast ==
    \A t \in Callers :
        LET c == call[t] IN
        c.op = "createSandbox" =>
            /\ OrderedLog(c.log)
            /\ Issued(c, "startContainer") => c.log[3].c \in DOMAIN containers
            /\ InFlight(c) => containerId = c.h0
            /\ (Done(c) /\ Raised(c)) => containerId = c.h0

\* the operations whose suspended invocation takes this step
Stepping == {call[t].op : t \in {u \in Callers : call'[u] # call[u] /\ InFlight(call[u])}}

C31_Frame ==
    /\ (containerId' # containerId \/ sandboxInfo' # sandboxInfo) =>
          Stepping \in {{"createSandbox"}, {"terminate"}}
    /\ (containerId' # containerId /\ containerId' # NoContainer) =>
          Stepping = {"createSandbox"}
    /\ (sandboxInfo' # sandboxInfo /\ sandboxInfo' # NoInfo) =>
          Stepping = {"createSandbox"}
    /\ (containerId' # containerId /\ containerId' = NoContainer) =>
          Stepping = {"terminate"}
    /\ (sandboxInfo' # sandboxInfo /\ sandboxInfo' = NoInfo) =>
          Stepping = {"terminate"}

\* C31: the handle and the cached SandboxInfo are given a value only by a
\* step of createSandbox and are cleared only by a step of terminate; every
\* step of runCommand, writeFile, readFile, listFiles, installPackages,
\* getSandboxUrl, getSandboxInfo, isAlive, setupViteApp and
\* restartViteServer, succeeding or failing, leaves both as they were.
C31_FieldsSetAndClearedOnlyByLifecycle == [][C31_Frame]_vars

\* a file operation has failed on a provisioned provider, which still holds
\* its handle and its SandboxInfo
C31_Witness ==
    /\ call["a"].op = "writeFile" /\ Done(call["a"]) /\ Raised(call["a"])
    /\ call["a"].h0 # NoContainer
    /\ containerId = call["a"].h0 /\ sandboxInfo # NoInfo

Whitespace == {" ", "\t"}

RECURSIVE TokensAcc(_, _, _)
TokensAcc(s, cur, out) ==
    LET flushed == IF cur = <<>> THEN out ELSE Append(out, cur) IN
    IF s = <<>> THEN flushed
    ELSE IF Head(s) \in Whitespace THEN TokensAcc(Tail(s), <<>>, flushed)
    ELSE TokensAcc(Tail(s), Append(cur, Head(s)), out)

\* the maximal runs of non-whitespace characters of s, in order
Tokens(s) == TokensAcc(s, <<>>, <<>>)

\* C32 as claimed: the argv a runCommand hands to exec is the sequence of
\* the maximal non-whitespace tokens of its command string, in order, and
\* holds no empty string.
C32_ArgvIsTokens ==
    \A t \in Callers :
        LET c == call[t] IN
        (c.op = "runCommand" /\ c.h0 # NoContainer /\ Len(c.log) > 0) =>
            /\ c.log[1].a = Tokens(c.arg)
            /\ \A i \in DOMAIN c.log[1].a : c.log[1].a[i] # <<>>

\* the existence check of a createSandbox has been answered by a test -f
\* that ran
ManifestChecked(c) ==
    /\ c.op = "createSandbox" /\ c.pc \in {"initWrite", "url", "done"}
    /\ Len(c.log) >= 5 /\ c.real \in ExitCodes

\* C33 as claimed: createSandbox writes the default manifest to
\* <workingDirectory>/package.json exactly when the existence check (test -f)
\* reports that there is none; when it reports one, nothing is written.
C33_ManifestSeededWhenAbsent ==
    \A t \in Callers :
        LET c == call[t] IN
        ManifestChecked(c) =>
            /\ Issued(c, "writeFile") <=> c.real = 1
            /\ Issued(c, "writeFile") =>
                  c.log[6] = EngineCall("writeFile", c.log[3].c,
                                        <<FullPath("package.json"), DefaultPackageJson>>)

\* the files setupViteApp writes before it turns to the manifest, in order
SetupFiles == <<"vite.config.js", "src/main.jsx", "src/App.jsx", "src/index.css", "index.html">>

\* the engine calls of a setupViteApp that went through: the install, the
\* five files with the mkdir after the first, the read of the manifest and
\* its rewrite
SetupOrder(log) ==
    /\ Len(log) = 9
    /\ log[1].k = "execCommand" /\ log[1].a[1] = <<"npm">> /\ log[1].a[2] = <<"install">>
    /\ log[3].k = "execCommand" /\ log[3].a[1] = <<"mkdir">>
    /\ \A i \in 1..5 :
          LET e == log[IF i = 1 THEN 2 ELSE i + 2] IN
          e.k = "writeFile" /\ e.a[1] = FullPath(SetupFiles[i])
    /\ log[8] = EngineCall("readFile", log[1].c, <<FullPath("package.json")>>)
    /\ log[9].k = "writeFile" /\ log[9].a[1] = FullPath("package.json")

OtherMembers(obj) == {m \in obj : m[1] # "scripts.dev"}

C34_Order ==
    \A t \in Callers :
        LET c == call[t] IN
        (c.op = "setupViteApp" /\ Done(c) /\ ~Raised(c)) =>
            /\ SetupOrder(c.log)
            /\ IsJson(files[c.h0]["package.json"])
            /\ <<"scripts.dev", ViteDevScript>> \in parse(files[c.h0]["package.json"])

\* the step in which the rewrite of the manifest is answered
C34_Rewrite ==
    \A t \in Callers :
        LET c == call[t] IN
        (/\ c.op = "setupViteApp" /\ c.pc = "write" /\ c.k = Len(SetupPlan)
         /\ Done(call'[t]) /\ ~Raised(call'[t])) =>
            LET before == parse(files[c.h0]["package.json"])
                after == parse(files'[c.h0]["package.json"])
            IN /\ OtherMembers(after) = OtherMembers(before)
               /\ after \ OtherMembers(after) = {<<"scripts.dev", ViteDevScript>>}

\* C34: a setupViteApp that succeeds has issued the install first, then the
\* writes of vite.config.js, src/main.jsx, src/App.jsx, src/index.css and
\* index.html, and last the rewrite of package.json, which sets scripts.dev
\* to 'vite --host 0.0.0.0 --port 3000' and writes every other member of the
\* manifest it read back unchanged.
C34_SetupOrderAndManifest == [](C34_Order) /\ [][C34_Rewrite]_vars

\* setupViteApp went through on a manifest the caller had written
C34_Witness ==
    LET c == call["a"] IN
    /\ c.op = "setupViteApp" /\ Done(c) /\ ~Raised(c)
    /\ parse(files[c.h0]["package.json"]) = JsonTexts["customPackageJson.vite"]

Args(argv) == {argv[i] : i \in DOMAIN argv}

\* C35 as claimed: restartViteServer issues the kill first and, after the
\* settling delay and whatever the kill answered, starts the dev script as a
\* background process: the "&" is not handed to npm as an argument, and the
\* caller is not kept waiting on the dev server while time passes.
C35_RestartDetached ==
    \A t \in Callers :
        LET c == call[t] IN
        (c.op = "restartViteServer" /\ c.h0 # NoContainer) =>
            /\ Len(c.log) >= 1 =>
                  c.log[1] = EngineCall("execCommand", c.h0, <<<<"pkill">>, <<"-f">>, <<"vite">>>>)
            /\ Len(c.log) >= 2 =>
                  /\ c.log[2].k = "execCommand"
                  /\ <<"&">> \notin Args(c.log[2].a)
                  /\ ~(c.pc = "race" /\ c.elapsed > 0)

\* C36 as claimed: under every interleaving of createSandbox and terminate
\* on one provider instance, a cached SandboxInfo that is not absent comes
\* with a held container handle.
C36_InfoImpliesHandle == sandboxInfo # NoInfo => ~NoHandle

TimeoutResult == Return(FailureResult(<<"Command timeout">>))

\* a runCommand on a provisioned provider has returned one CommandResult:
\* the timeout failure when the timer won, what the exec answered otherwise
C37_Decided ==
    \A t \in Callers :
        LET c == call[t] IN
        (c.op = "runCommand" /\ c.h0 # NoContainer /\ Done(c)) =>
            /\ c.res.kind = "return" /\ c.res.v.t = "cmd"
            /\ c.how \in {"ran", "failed", "timeout"}
            /\ c.how = "timeout" <=> c.res = TimeoutResult
            /\ c.how = "failed" => c.res = Return(FailureResult(EngineError.msg))
            /\ c.how = "ran" => c.res.v.exitCode \in ExitCodes

\* the result a runCommand has returned stays what it is
C37_ResultStable ==
    \A t \in Callers :
        (call[t].op = "runCommand" /\ Done(call[t]) /\ call'[t].n = call[t].n) =>
            call'[t].res = call[t].res

\* the step in which the losing event of a race arrives changes no call's
\* result, position or pending engine call, nor the handle, nor the SandboxInfo
C37_LateFrame ==
    \A t \in Callers :
        (call[t].late # "none" /\ call'[t].late = "none" /\ call'[t].n = call[t].n) =>
            /\ \A u \in Callers :
                  /\ call'[u].res = call[u].res
                  /\ call'[u].pc = call[u].pc
                  /\ call'[u].pend = call[u].pend
            /\ containerId' = containerId
            /\ sandboxInfo' = sandboxInfo

\* C37: every runCommand delivers one CommandResult, that of the event that
\* came first (exec answer or timer); the event that lost the race changes
\* neither that result, nor the result of another call, nor the handle or
\* the SandboxInfo.
C37_OneResultPerRace == [](C37_Decided) /\ [][C37_ResultStable /\ C37_LateFrame]_vars

\* caller a's command timed out and its exec has answered since; caller b's
\* command, invoked later, has returned what its own exec answered
C37_Witness ==
    /\ call["a"].op = "runCommand" /\ Done(call["a"]) /\ call["a"].h0 # NoContainer
    /\ call["a"].how = "timeout" /\ call["a"].late = "none"
    /\ call["a"].res = TimeoutResult
    /\ call["b"].op = "runCommand" /\ Done(call["b"]) /\ call["b"].how = "ran"
    /\ call["b"].n > call["a"].n

Populated(cache) == cache # NoCachedModels

\* a populated cache holds a non-empty list and stays populated
C38_NonEmpty ==
    Populated(modelService.cachedModels) =>
        /\ Len(modelService.cachedModels.models) > 0
        /\ Populated(modelService.cachedModels')
        /\ Len(modelService.cachedModels'.models) > 0

\* the step in which a fetch answers with a failure or an empty list leaves
\* the cached entry as it is and returns the empty list
C38_FailedFetch ==
    \A t \in Callers :
        LET c == modelService.call'[t] IN
        (/\ modelService.call[t].pc = "fetch" /\ c.pc = "done"
         /\ (c.how # "json" \/ c.res = <<>>)) =>
            /\ modelService.cachedModels' = modelService.cachedModels
            /\ c.res = <<>>

\* C38: once populated, the model cache always holds a non-empty list; a
\* fetch that fails or returns an empty list (no API key, response not ok,
\* exception) neither replaces nor clears nor re-stamps the cached entry,
\* and the call that performed it returns the empty list.
C38_CacheKeptOnFailedFetch == [][C38_NonEmpty /\ C38_FailedFetch]_vars

\* with the cache populated earlier, a fetch met a response that was not ok:
\* the call returned the empty list and the entry has its list and old stamp
C38_Witness ==
    LET c == modelService.call["a"] IN
    /\ c.pc = "done" /\ c.fetched /\ c.how = "notok" /\ c.res = <<>>
    /\ Populated(c.seen)
    /\ modelService.cachedModels.models = c.seen.models
    /\ modelService.cachedModels.timestamp < c.now

\* C39 as claimed: a getModels() call answered from the cache after a
\* getRecommendedModels(limit) that was itself answered from the cache
\* returns the models, in the order, that getModels() returned before it.
C39_RecommendedKeepsCache ==
    \A t \in Callers :
        LET c == modelService.call[t] IN
        (/\ c.op = "getModels" /\ c.pc = "done" /\ ~c.force /\ ~c.fetched
         /\ c.prev.op = "getRecommendedModels" /\ ~c.prev.fetched) =>
            c.res = c.seen.models

====
